---- MODULE Spec2Model ----
(***************************************************************************)
(* A model of aberke/fractals: the path renderer (draw / drawNextPart),    *)
(* the branched renderer of the Pythagoras tree (drawPythagorasTree /      *)
(* drawBranchedPathList) and the curve generators (Sierpinski triangle,    *)
(* Sierpinski arrowhead curve, Pythagoras tree).                           *)
(*                                                                         *)
(* A path is a sequence of segments.  The drawing surface (Raphael's       *)
(* paper) is modelled by what the code asks of it: paper.path(p) creates a *)
(* handle showing p, handle.animate({path: t}, ms, cb) puts one animation  *)
(* in flight, and when that animation completes the handle shows t and cb  *)
(* runs.                                                                   *)
(***************************************************************************)
EXTENDS Integers, Sequences, FiniteSets, TLC

VARIABLES
    \* ---- draw / drawNextPart (the path renderer) ----
    draws,          \* the draw calls made so far: <<[pathList, handle]>>
    paths,          \* paths[h]: the path the handle h of the paper shows
    animations,     \* the animate requests in flight
    animateLog,     \* animateLog[h]: the targets of the animate requests for h, in order
    \* ---- drawPythagorasTree / drawBranchedPathList (the branched renderer) ----
    treeCall,       \* the arguments the tree was generated with
    treePath,       \* the pathList handed to drawPythagorasTree
    branchPc,       \* "idle" before drawPythagorasTree is called, "drawing" after
    branchPaths,    \* branchPaths[s]: the path shown by the handle created for the group at s
    branchAnimations, \* the animate requests of the branched renderer in flight
    callbacks,      \* callbacks[s]: the levels drawCallback was called with for the group at s
    completed,      \* the animate requests of the branched renderer that have completed
    \* ---- the Sierpinski triangle generator ----
    triCall,        \* the call made: the function entered and its arguments
    triPc,          \* "called", "loop" (in iterativeSierpinskiTriangleRoutine's loop), "done"
    triArgs,        \* the arguments of the running iterativeSierpinskiTriangleRoutine
    triangleQueue,  \* its triangleQueue
    triPathList,    \* its pathList
    triOuter,       \* getSierpinskiTriangle's pathList before the inner triangles are added
    triResult,      \* the path returned by the call
    \* ---- the Sierpinski arrowhead curve generator ----
    arrowCall,      \* the call made: the function entered and its arguments
    arrowPc,        \* "called", "done"
    arrowResult,    \* the pathList after the call
    arrowStack,     \* the frames of arrowheadCurve on the call stack, innermost first
    \* ---- calls of the other generators and of the utilities ----
    call,           \* the call made: the function entered and its arguments
    callPc,         \* "called", "done"
    callResult      \* what the call returned

revealVars == <<draws, paths, animations, animateLog>>

branchVars == <<treeCall, treePath, branchPc, branchPaths, branchAnimations,
                callbacks, completed>>

triVars == <<triCall, triPc, triArgs, triangleQueue, triPathList, triOuter, triResult>>

arrowVars == <<arrowCall, arrowPc, arrowResult, arrowStack>>

callVars == <<call, callPc, callResult>>

vars == <<revealVars, branchVars, triVars, arrowVars, callVars>>

(***************************************************************************)
(* Bounds of the model.                                                    *)
(***************************************************************************)
\* draw is called at most this many times on one paper
MaxDraws == 2
\* a path handed to draw has at most this many segments
MaxLen == 3
\* the Pythagoras tree is generated with at most this many levels
MaxTreeLevel == 3
\* the triangle and arrowhead generators are called with a level of at most
MaxLevel == 3
\* the largest angle, in units of 60 degrees, that getNextPoint is called with
MaxAngle == 8
\* drawFractalRow is called with at most this many fractals
MaxCount == 3
\* drawFractalRow is called with a maximum order of at most
MaxOrder == 3
\* the headings of the arrowhead curve are followed to at most this depth
MaxDepth == 10
\* the branched renderer is given lists of at most this many groups of segments
MaxGroups == 9

(***************************************************************************)
(* Helpers: JavaScript's Array.prototype.slice, ranges, sums.              *)
(***************************************************************************)
Min(a, b) == IF a < b THEN a ELSE b

Max(a, b) == IF a < b THEN b ELSE a

Range(s) == {s[i] : i \in DOMAIN s}

\* s.slice(from, to) for 0 <= from: the elements at the 0-based indices
\* from .. min(to, s.length) - 1
Slice(s, from, to) == SubSeq(s, from + 1, Min(to, Len(s)))

\* the handle draw returns when it creates none (pathList empty)
NoHandle == 0

\* the segment list of the k-th draw call: n distinguishable segments
PathOf(k, n) == [i \in 1..n |-> <<k, i>>]

(***************************************************************************)
(* The path renderer.                                                      *)
(***************************************************************************)
\* drawNextPart, stopping one step early: a guard of index >= length - 1
drawNextPart_stopsEarly(pathList, currentPath, index) ==
    IF index >= Len(pathList) - 1 /\ index > 1
    THEN <<>>
    ELSE <<[handle |-> currentPath,
            target |-> Slice(pathList, 0, index + 1),
            cb     |-> [pathList |-> pathList, index |-> index]]>>

\* drawNextPart, not waiting for the completion callback: it recurses right
\* after the animate request
drawNextPart_noWait(pathList, currentPath, index) ==
    IF index > Len(pathList)
    THEN <<>>
    ELSE <<[handle |-> currentPath,
            target |-> Slice(pathList, 0, index + 1),
            cb     |-> [pathList |-> pathList, index |-> index]],
           [handle |-> currentPath,
            target |-> Slice(pathList, 0, index + 2),
            cb     |-> [pathList |-> pathList, index |-> index + 1]]>>

\* drawNextPart(pathList, currentPath, index, interval): the animate requests
\* the call issues, in order.  cb is the closure of the completion callback.
drawNextPart(pathList, currentPath, index) ==
    IF index > Len(pathList)
    THEN <<>>
    ELSE <<[handle |-> currentPath,
            target |-> Slice(pathList, 0, index + 1),
            cb     |-> [pathList |-> pathList, index |-> index]]>>

Targets(reqs) == [i \in DOMAIN reqs |-> reqs[i].target]

\* draw(paper, pathList, interval)
draw(pathList) ==
    /\ Len(draws) < MaxDraws
    /\ IF Len(pathList) <= 0
       THEN /\ draws' = Append(draws, [pathList |-> pathList, handle |-> NoHandle])
            /\ UNCHANGED <<paths, animations, animateLog>>
       ELSE LET currentPath == Len(paths) + 1
                reqs == drawNextPart(pathList, currentPath, 1)
            IN  /\ paths' = Append(paths, <<pathList[1]>>)
                /\ animations' = animations \cup Range(reqs)
                /\ animateLog' = Append(animateLog, Targets(reqs))
                /\ draws' = Append(draws, [pathList |-> pathList, handle |-> currentPath])

Draw ==
    /\ \E n \in 0..MaxLen : draw(PathOf(Len(draws) + 1, n))
    /\ UNCHANGED <<branchVars, triVars, arrowVars, callVars>>

\* the completion callback of one animate request of drawNextPart: the handle
\* shows the target, then drawNextPart runs for the next index
animateDone(a) ==
    /\ a \in animations
    /\ LET reqs == drawNextPart(a.cb.pathList, a.handle, a.cb.index + 1)
       IN  /\ paths' = [paths EXCEPT ![a.handle] = a.target]
           /\ animations' = (animations \ {a}) \cup Range(reqs)
           /\ animateLog' = [animateLog EXCEPT ![a.handle] = @ \o Targets(reqs)]
    /\ UNCHANGED draws

AnimateDone ==
    /\ \E a \in animations : animateDone(a)
    /\ UNCHANGED <<branchVars, triVars, arrowVars, callVars>>

RevealInit ==
    /\ draws = <<>>
    /\ paths = <<>>
    /\ animations = {}
    /\ animateLog = <<>>

BranchIdle ==
    /\ treeCall = [level |-> 0, edgePathFunction |-> "getStraightPath"]
    /\ treePath = <<>>
    /\ branchPc = "idle"
    /\ branchPaths = <<>>
    /\ branchAnimations = {}
    /\ callbacks = <<>>
    /\ completed = {}

NoArgs == [centerPoint |-> <<0, <<0, 0>>>>, sideLength |-> 0, level |-> 0, orientation |-> 1]

TriIdle ==
    /\ triCall = [entry |-> "none"]
    /\ triPc = "idle"
    /\ triArgs = NoArgs
    /\ triangleQueue = <<>>
    /\ triPathList = <<>>
    /\ triOuter = <<>>
    /\ triResult = <<>>

ArrowIdle ==
    /\ arrowCall = [entry |-> "none"]
    /\ arrowPc = "idle"
    /\ arrowResult = <<>>
    /\ arrowStack = <<>>

CallIdle ==
    /\ call = [entry |-> "none"]
    /\ callPc = "idle"
    /\ callResult = <<>>

Init ==
    /\ RevealInit
    /\ BranchIdle
    /\ TriIdle
    /\ ArrowIdle
    /\ CallIdle

Next == Draw \/ AnimateDone

Spec == Init /\ [][Next]_vars

\* every animation in flight eventually completes (the surface fires each
\* completion callback)
FairSpec == Spec /\ WF_vars(AnimateDone)

(***************************************************************************)
(* Claims about the path renderer.                                         *)
(***************************************************************************)
InFlight(h) == {a \in animations : a.handle = h}

AtMostOneInFlight ==
    \A h \in DOMAIN paths : Cardinality(InFlight(h)) <= 1

\* a step that issues a request for an existing handle h is the completion of
\* the previous request for h
IssuedFromCallback ==
    \A h \in DOMAIN animateLog :
        Len(animateLog'[h]) > Len(animateLog[h]) =>
            \E a \in animations :
                /\ a.handle = h
                /\ a \notin animations'
                /\ Len(animateLog[h]) > 0
                /\ a.target = animateLog[h][Len(animateLog[h])]

\* C1: during a reveal at most one animation of the path handle is in flight,
\* and a new animate request for the handle is issued only by the completion
\* callback of the previous request for that handle.
C1_OneAnimationPerHandle ==
    [][AtMostOneInFlight' /\ IssuedFromCallback]_vars

\* C1 witness: a second request for a handle is in flight, issued after the
\* first one completed
C1_Witness ==
    \E h \in DOMAIN paths :
        /\ Len(animateLog[h]) >= 2
        /\ Cardinality(InFlight(h)) = 1
        /\ Len(paths[h]) >= 2

\* C2 (as claimed): the i-th animation step draw requests shows the prefix of
\* i + 1 segments, one more than the step before (segment 0 alone is shown
\* first), so no step is requested once the prefix covers the sequence.
C2_AsClaimed_EachStepExtendsByOne ==
    \A h \in DOMAIN animateLog :
        \A i \in DOMAIN animateLog[h] :
            Len(animateLog[h][i]) = i + 1

RevealDone(k) ==
    /\ k \in DOMAIN draws
    /\ IF draws[k].handle = NoHandle
       THEN /\ Len(draws[k].pathList) = 0
            /\ \A a \in animations : a.cb.pathList # draws[k].pathList
       ELSE /\ paths[draws[k].handle] = draws[k].pathList
            /\ InFlight(draws[k].handle) = {}

\* C3: under fair completion of the animations, every reveal started by draw
\* eventually shows its whole path with no animation pending, for good; an
\* empty path creates no handle and schedules nothing.
C3_RevealCompletes ==
    \A k \in 1..MaxDraws :
        [](k \in DOMAIN draws => <>[]RevealDone(k))

\* C3 witness: a reveal of at least two segments has run to completion
C3_Witness ==
    \E k \in DOMAIN draws :
        /\ Len(draws[k].pathList) >= 2
        /\ RevealDone(k)

(***************************************************************************)
(* The Pythagoras tree generator.                                          *)
(*                                                                         *)
(* Its coordinates are computed exactly: every number the generator        *)
(* produces from orientations that are multiples of 45 degrees lies in     *)
(* Z[sqrt 2], and <<a, b>> stands for a + b * sqrt(2).  A point {X, Y} is   *)
(* <<X, Y>>.  Angles are counted in units of 45 degrees.                    *)
(***************************************************************************)
ZAdd(x, y) == <<x[1] + y[1], x[2] + y[2]>>

ZSub(x, y) == <<x[1] - y[1], x[2] - y[2]>>

ZMul(x, y) == <<x[1] * y[1] + 2 * x[2] * y[2], x[1] * y[2] + x[2] * y[1]>>

ZTimes(n, x) == <<n * x[1], n * x[2]>>

\* x / n, for the n that divide x: the side length of the root square is
\* chosen so that every division of the generator is exact
ZDiv(x, n) == <<x[1] \div n, x[2] \div n>>

\* 2 * Math.cos(o * RADIANS_45_DEGREES) and 2 * Math.sin(o * RADIANS_45_DEGREES)
Cos2(o) ==
    CASE o % 8 = 0 -> <<2, 0>>
      [] o % 8 = 1 -> <<0, 1>>
      [] o % 8 = 2 -> <<0, 0>>
      [] o % 8 = 3 -> <<0, -1>>
      [] o % 8 = 4 -> <<-2, 0>>
      [] o % 8 = 5 -> <<0, -1>>
      [] o % 8 = 6 -> <<0, 0>>
      [] o % 8 = 7 -> <<0, 1>>

Sin2(o) == Cos2(o - 2)

\* x * Math.cos(angle), x * Math.sin(angle)
TimesCos(x, o) == ZDiv(ZMul(x, Cos2(o)), 2)

TimesSin(x, o) == ZDiv(ZMul(x, Sin2(o)), 2)

\* RADIANS_45_DEGREES, in units of 45 degrees
RADIANS_45_DEGREES == 1

\* the number of path pieces that compose a square of the tree
jump == 6

\* rotatePoint(point, angle, center)
rotatePoint(point, angle, center) ==
    LET translatedX == ZSub(point[1], center[1])
        translatedY == ZSub(point[2], center[2])
        rotatedX == ZSub(TimesCos(translatedX, angle), TimesSin(translatedY, angle))
        rotatedY == ZAdd(TimesSin(translatedX, angle), TimesCos(translatedY, angle))
    IN  <<ZAdd(rotatedX, center[1]), ZAdd(rotatedY, center[2])>>

\* a straight path that leads to its from-point
getStraightPath_toFromPoint(fromPoint, toPoint) == <<"L", fromPoint[1], fromPoint[2]>>

\* the edge path functions
getStraightPath(fromPoint, toPoint) == <<"L", toPoint[1], toPoint[2]>>

getCurvedPath(fromPoint, toPoint, centerPoint) ==
    <<"S", toPoint[1], toPoint[2], fromPoint[1], fromPoint[2]>>

getEllipsePath(fromPoint, toPoint, centerPoint) ==
    <<"A", 5, 5, 0, 1, 1, toPoint[1], toPoint[2]>>

\* getCatmullRomPath with its default multiplier of 3/4
getCatmullRomPath(fromPoint, toPoint, centerPoint) ==
    LET differenceX == ZSub(centerPoint[1], fromPoint[1])
        differenceY == ZSub(centerPoint[2], fromPoint[2])
    IN  <<"R", ZAdd(fromPoint[1], ZDiv(ZTimes(3, differenceX), 4)),
               ZAdd(fromPoint[2], ZDiv(ZTimes(3, differenceY), 4)),
               toPoint[1], toPoint[2]>>

EdgePathFunctions ==
    {"getStraightPath", "getCurvedPath", "getEllipsePath", "getCatmullRomPath"}

\* edgePathFunction(fromPoint, toPoint, centerPoint)
edgePath(edgePathFunction, fromPoint, toPoint, centerPoint) ==
    CASE edgePathFunction = "getStraightPath" -> getStraightPath(fromPoint, toPoint)
      [] edgePathFunction = "getCurvedPath" -> getCurvedPath(fromPoint, toPoint, centerPoint)
      [] edgePathFunction = "getEllipsePath" -> getEllipsePath(fromPoint, toPoint, centerPoint)
      [] edgePathFunction = "getCatmullRomPath" ->
            getCatmullRomPath(fromPoint, toPoint, centerPoint)

\* pythagorasTreeSquare without the MoveTo to the center of the square
pythagorasTreeSquare_oneMoveTo(centerPoint, orientation, sideLength, edgePathFunction) ==
    LET diagonal == ZMul(sideLength, <<0, 1>>)
        \* (1/2)*diagonal*Math.cos(RADIANS_45_DEGREES), which is also
        \* (1/2)*diagonal*Math.sin(RADIANS_45_DEGREES)
        half == TimesCos(ZDiv(diagonal, 2), RADIANS_45_DEGREES)
        bottomLeftPoint == rotatePoint(<<ZSub(centerPoint[1], half), ZAdd(centerPoint[2], half)>>,
                                       orientation, centerPoint)
        bottomRightPoint == rotatePoint(<<ZAdd(centerPoint[1], half), ZAdd(centerPoint[2], half)>>,
                                        orientation, centerPoint)
        topLeftPoint == rotatePoint(<<ZSub(centerPoint[1], half), ZSub(centerPoint[2], half)>>,
                                    orientation, centerPoint)
        topRightPoint == rotatePoint(<<ZAdd(centerPoint[1], half), ZSub(centerPoint[2], half)>>,
                                     orientation, centerPoint)
    IN  << <<"M", bottomLeftPoint[1], bottomLeftPoint[2]>>,
           edgePath(edgePathFunction, bottomLeftPoint, bottomRightPoint, centerPoint),
           edgePath(edgePathFunction, bottomRightPoint, topRightPoint, centerPoint),
           edgePath(edgePathFunction, topRightPoint, topLeftPoint, centerPoint),
           edgePath(edgePathFunction, topRightPoint, bottomLeftPoint, centerPoint) >>

\* pythagorasTreeSquare asking for its closing edge from the top left corner
pythagorasTreeSquare_closeFromTopLeft(centerPoint, orientation, sideLength, edgePathFunction) ==
    LET diagonal == ZMul(sideLength, <<0, 1>>)
        \* (1/2)*diagonal*Math.cos(RADIANS_45_DEGREES), which is also
        \* (1/2)*diagonal*Math.sin(RADIANS_45_DEGREES)
        half == TimesCos(ZDiv(diagonal, 2), RADIANS_45_DEGREES)
        bottomLeftPoint == rotatePoint(<<ZSub(centerPoint[1], half), ZAdd(centerPoint[2], half)>>,
                                       orientation, centerPoint)
        bottomRightPoint == rotatePoint(<<ZAdd(centerPoint[1], half), ZAdd(centerPoint[2], half)>>,
                                        orientation, centerPoint)
        topLeftPoint == rotatePoint(<<ZSub(centerPoint[1], half), ZSub(centerPoint[2], half)>>,
                                    orientation, centerPoint)
        topRightPoint == rotatePoint(<<ZAdd(centerPoint[1], half), ZSub(centerPoint[2], half)>>,
                                     orientation, centerPoint)
    IN  << <<"M", centerPoint[1], centerPoint[2]>>,
           <<"M", bottomLeftPoint[1], bottomLeftPoint[2]>>,
           edgePath(edgePathFunction, bottomLeftPoint, bottomRightPoint, centerPoint),
           edgePath(edgePathFunction, bottomRightPoint, topRightPoint, centerPoint),
           edgePath(edgePathFunction, topRightPoint, topLeftPoint, centerPoint),
           edgePath(edgePathFunction, topLeftPoint, bottomLeftPoint, centerPoint) >>

\* pythagorasTreeSquare(centerPoint, orientation, sideLength, edgePathFunction)
pythagorasTreeSquare(centerPoint, orientation, sideLength, edgePathFunction) ==
    LET diagonal == ZMul(sideLength, <<0, 1>>)
        \* (1/2)*diagonal*Math.cos(RADIANS_45_DEGREES), which is also
        \* (1/2)*diagonal*Math.sin(RADIANS_45_DEGREES)
        half == TimesCos(ZDiv(diagonal, 2), RADIANS_45_DEGREES)
        bottomLeftPoint == rotatePoint(<<ZSub(centerPoint[1], half), ZAdd(centerPoint[2], half)>>,
                                       orientation, centerPoint)
        bottomRightPoint == rotatePoint(<<ZAdd(centerPoint[1], half), ZAdd(centerPoint[2], half)>>,
                                        orientation, centerPoint)
        topLeftPoint == rotatePoint(<<ZSub(centerPoint[1], half), ZSub(centerPoint[2], half)>>,
                                    orientation, centerPoint)
        topRightPoint == rotatePoint(<<ZAdd(centerPoint[1], half), ZSub(centerPoint[2], half)>>,
                                     orientation, centerPoint)
    IN  << <<"M", centerPoint[1], centerPoint[2]>>,
           <<"M", bottomLeftPoint[1], bottomLeftPoint[2]>>,
           edgePath(edgePathFunction, bottomLeftPoint, bottomRightPoint, centerPoint),
           edgePath(edgePathFunction, bottomRightPoint, topRightPoint, centerPoint),
           edgePath(edgePathFunction, topRightPoint, topLeftPoint, centerPoint),
           edgePath(edgePathFunction, topRightPoint, bottomLeftPoint, centerPoint) >>

\* the center of a child square: centerPoint moved by (1/2)*tightener*sideLength
\* along orientation and by (3/4)*tightener*sideLength along childOrientation,
\* with tightener = 0.96 = 24/25
childCenterPoint(centerPoint, orientation, childOrientation, sideLength) ==
    LET unit == ZDiv(sideLength, 25)
    IN  <<ZAdd(centerPoint[1], ZAdd(TimesCos(ZTimes(12, unit), orientation),
                                    TimesCos(ZTimes(18, unit), childOrientation))),
          ZAdd(centerPoint[2], ZAdd(TimesSin(ZTimes(12, unit), orientation),
                                    TimesSin(ZTimes(18, unit), childOrientation)))>>

\* pythagorasTreeRoutine with the base case level < 0, which draws one level more
RECURSIVE pythagorasTreeRoutine_extraLevel(_, _, _, _, _, _)
pythagorasTreeRoutine_extraLevel(level, pathList, centerPoint, orientation, sideLength, edgePathFunction) ==
    IF level < 0
    THEN pathList
    ELSE LET shapePathList == pythagorasTreeSquare(centerPoint, orientation, sideLength,
                                                   edgePathFunction)
             childSideLength == ZDiv(ZMul(<<0, 1>>, sideLength), 2)
             afterLeft == pythagorasTreeRoutine_extraLevel(level - 1, pathList \o shapePathList,
                              childCenterPoint(centerPoint, orientation,
                                               orientation - RADIANS_45_DEGREES, sideLength),
                              orientation - RADIANS_45_DEGREES, childSideLength,
                              edgePathFunction)
         IN  pythagorasTreeRoutine_extraLevel(level - 1, afterLeft,
                 childCenterPoint(centerPoint, orientation,
                                  orientation + RADIANS_45_DEGREES, sideLength),
                 orientation + RADIANS_45_DEGREES, childSideLength, edgePathFunction)

\* pythagorasTreeRoutine making its call for the right child before the one
\* for the left child
RECURSIVE pythagorasTreeRoutine_rightFirst(_, _, _, _, _, _)
pythagorasTreeRoutine_rightFirst(level, pathList, centerPoint, orientation, sideLength, edgePathFunction) ==
    IF level <= 0
    THEN pathList
    ELSE LET shapePathList == pythagorasTreeSquare(centerPoint, orientation, sideLength,
                                                   edgePathFunction)
             childSideLength == ZDiv(ZMul(<<0, 1>>, sideLength), 2)
             afterRight == pythagorasTreeRoutine_rightFirst(level - 1, pathList \o shapePathList,
                               childCenterPoint(centerPoint, orientation,
                                                orientation + RADIANS_45_DEGREES, sideLength),
                               orientation + RADIANS_45_DEGREES, childSideLength,
                               edgePathFunction)
         IN  pythagorasTreeRoutine_rightFirst(level - 1, afterRight,
                 childCenterPoint(centerPoint, orientation,
                                  orientation - RADIANS_45_DEGREES, sideLength),
                 orientation - RADIANS_45_DEGREES, childSideLength, edgePathFunction)

\* pythagorasTreeRoutine(level, pathList, centerPoint, orientation, sideLength,
\* edgePathFunction): the pathList after the call, which appends to it in place
RECURSIVE pythagorasTreeRoutine(_, _, _, _, _, _)
pythagorasTreeRoutine(level, pathList, centerPoint, orientation, sideLength, edgePathFunction) ==
    IF level <= 0
    THEN pathList
    ELSE LET shapePathList == pythagorasTreeSquare(centerPoint, orientation, sideLength,
                                                   edgePathFunction)
             childSideLength == ZDiv(ZMul(<<0, 1>>, sideLength), 2)
             leftChildOrientation == orientation - RADIANS_45_DEGREES
             rightChildOrientation == orientation + RADIANS_45_DEGREES
             leftChildCenterPoint ==
                 childCenterPoint(centerPoint, orientation, leftChildOrientation, sideLength)
             rightChildCenterPoint ==
                 childCenterPoint(centerPoint, orientation, rightChildOrientation, sideLength)
             afterLeft == pythagorasTreeRoutine(level - 1, pathList \o shapePathList,
                              leftChildCenterPoint, leftChildOrientation, childSideLength,
                              edgePathFunction)
         IN  pythagorasTreeRoutine(level - 1, afterLeft, rightChildCenterPoint,
                 rightChildOrientation, childSideLength, edgePathFunction)

RECURSIVE Pow(_, _)
Pow(b, e) == IF e <= 0 THEN 1 ELSE b * Pow(b, e - 1)

\* the root square the tree is generated from: centered at the origin, pointing
\* up (-90 degrees), its side a multiple of 25 and of a power of two that makes
\* the generator's divisions exact at every level generated
TreeOrigin == <<<<0, 0>>, <<0, 0>>>>

TreeOrientation == -2

TreeSideLength == <<25 * Pow(2, MaxTreeLevel + 4), 0>>

(***************************************************************************)
(* The branched renderer.                                                  *)
(***************************************************************************)
\* nextIndex2 without the rounding to a group boundary
nextIndex2_noRounding(start, end) ==
    (start + end) \div 2

\* let nextIndex2 = Math.floor(start + end)/2;
\* nextIndex2 += (nextIndex2 % jump);
\* Math.floor is applied to the (integer) sum, not to the quotient: for an odd
\* sum 2k + 1 the quotient is k + 1/2, its remainder (k % jump) + 1/2, and
\* their sum the integer k + (k % jump) + 1.
nextIndex2(start, end) ==
    LET k == (start + end) \div 2
    IN  IF (start + end) % 2 = 0
        THEN k + (k % jump)
        ELSE k + (k % jump) + 1

\* the two recursive calls of the completion callback, leaving out the second
branchCalls_firstOnly(start, end, level) ==
    <<[start |-> start + jump, end |-> nextIndex2(start, end), level |-> level + 1]>>

\* the two recursive calls with the first one given the whole remaining range
branchCalls_overlapping(start, end, level) ==
    <<[start |-> start + jump, end |-> end, level |-> level + 1],
      [start |-> nextIndex2(start, end), end |-> end, level |-> level + 1]>>

\* the two recursive calls the completion callback of the group [start, end)
\* makes, in order: their start, end and level arguments
branchCalls(start, end, level) ==
    <<[start |-> start + jump, end |-> nextIndex2(start, end), level |-> level + 1],
      [start |-> nextIndex2(start, end), end |-> end, level |-> level + 1]>>

\* drawBranchedPathList that does not wait for its animation to complete: it
\* makes the two recursive calls itself
RECURSIVE drawBranchedPathList_noWait(_, _, _, _)
drawBranchedPathList_noWait(pathList, start, end, level) ==
    IF start + jump > end
    THEN <<>>
    ELSE <<[start |-> start, end |-> end, level |-> level,
            target |-> Slice(pathList, start, start + jump)]>>
         \o drawBranchedPathList_noWait(pathList, start + jump, nextIndex2(start, end),
                                        level + 1)
         \o drawBranchedPathList_noWait(pathList, nextIndex2(start, end), end, level + 1)

\* drawBranchedPathList(paper, pathList, start, end, jump, interval,
\* drawCallback, level): the groups the call starts drawing (none in the base
\* case, else one).  For a group it calls drawCallback(level), creates a handle
\* showing nextPart[0] and requests the animation to nextPart, whose completion
\* callback keeps start, end and level.
drawBranchedPathList(pathList, start, end, level) ==
    IF start + jump > end
    THEN <<>>
    ELSE <<[start |-> start, end |-> end, level |-> level,
            target |-> Slice(pathList, start, start + jump)]>>

\* the effect on the paper and on the observer of the groups started
StartGroups(groups, anims, shown) ==
    LET starts == {groups[i].start : i \in DOMAIN groups}
    IN  /\ callbacks' =
              [s \in DOMAIN callbacks \cup starts |->
                  LET before == IF s \in DOMAIN callbacks THEN callbacks[s] ELSE <<>>
                      now == SelectSeq(groups, LAMBDA g : g.start = s)
                  IN  before \o [i \in DOMAIN now |-> now[i].level]]
        /\ branchPaths' =
              [s \in DOMAIN shown \cup starts |->
                  IF s \in starts
                  THEN LET g == CHOOSE g \in Range(groups) : g.start = s
                       IN  SubSeq(g.target, 1, 1)
                  ELSE shown[s]]
        /\ branchAnimations' = anims \cup Range(groups)

\* drawPythagorasTree(paper, pathList, animationInterval, drawCallback)
drawPythagorasTree ==
    /\ branchPc = "idle"
    /\ branchPc' = "drawing"
    /\ StartGroups(drawBranchedPathList(treePath, 0, Len(treePath), 1), branchAnimations,
                   branchPaths)
    /\ UNCHANGED <<treeCall, treePath, completed>>

\* the completion callback of the animation of one group: the handle shows the
\* group, then the two child ranges are drawn
branchAnimateDone(a) ==
    /\ a \in branchAnimations
    /\ LET calls == branchCalls(a.start, a.end, a.level)
           groups == drawBranchedPathList(treePath, calls[1].start, calls[1].end, calls[1].level)
                     \o (IF Len(calls) >= 2
                         THEN drawBranchedPathList(treePath, calls[2].start, calls[2].end,
                                                   calls[2].level)
                         ELSE <<>>)
       IN  StartGroups(groups, branchAnimations \ {a},
                       [branchPaths EXCEPT ![a.start] = a.target])
    /\ completed' = completed \cup {a}
    /\ UNCHANGED <<treeCall, treePath, branchPc>>

DrawPythagorasTree ==
    /\ drawPythagorasTree
    /\ UNCHANGED <<revealVars, triVars, arrowVars, callVars>>

BranchAnimateDone ==
    /\ \E a \in branchAnimations : branchAnimateDone(a)
    /\ UNCHANGED <<revealVars, triVars, arrowVars, callVars>>

InitBranch ==
    /\ RevealInit
    /\ TriIdle
    /\ ArrowIdle
    /\ CallIdle
    /\ \E level \in 0..MaxTreeLevel, f \in EdgePathFunctions :
          /\ treeCall = [level |-> level, edgePathFunction |-> f]
          /\ treePath = pythagorasTreeRoutine(level, <<>>, TreeOrigin, TreeOrientation,
                                              TreeSideLength, f)
    /\ branchPc = "idle"
    /\ branchPaths = <<>>
    /\ branchAnimations = {}
    /\ callbacks = <<>>
    /\ completed = {}

NextBranch == DrawPythagorasTree \/ BranchAnimateDone

SpecBranch == InitBranch /\ [][NextBranch]_vars

(***************************************************************************)
(* Claims about the branched renderer.                                     *)
(***************************************************************************)
Squares == Len(treePath) \div jump

GroupStarts == {jump * g : g \in 0..(Squares - 1)}

BranchFinished == branchPc = "drawing" /\ branchAnimations = {}

\* C4: for the path of a balanced Pythagoras tree of d levels the level
\* callback is invoked exactly once per square over the whole reveal (never
\* twice at any time), and 2^(k-1) of the calls report level k, for k = 1..d.
C4_LevelCallbackOncePerSquare ==
    /\ \A s \in DOMAIN callbacks : s \in GroupStarts /\ Len(callbacks[s]) = 1
    /\ BranchFinished =>
          /\ DOMAIN callbacks = GroupStarts
          /\ \A s \in GroupStarts : callbacks[s][1] \in 1..treeCall.level
          /\ \A k \in 1..treeCall.level :
                Cardinality({s \in GroupStarts : callbacks[s] = <<k>>}) = Pow(2, k - 1)

\* C4 witness: the reveal of a tree of at least 3 levels has finished
C4_Witness ==
    /\ BranchFinished
    /\ treeCall.level >= 3
    /\ Squares >= 7

\* g is a group on the branch from the root to the group a
OnBranchAbove(g, a) == g.start < a.start /\ a.end <= g.end

\* every group started in this step is the root, started by drawPythagorasTree,
\* or is started by the completion of the animation of its parent group; the
\* level callback is invoked in this step for the groups started in it only
StartedByParentCompletion ==
    /\ \A n \in branchAnimations' \ branchAnimations :
          \/ branchPc = "idle" /\ n.start = 0 /\ n.end = Len(treePath) /\ n.level = 1
          \/ \E a \in branchAnimations \ branchAnimations' :
                /\ a \in completed'
                /\ OnBranchAbove(a, n)
                /\ a.start + jump <= n.start
                /\ n.level = a.level + 1
    /\ \A s \in DOMAIN callbacks' :
          (s \notin DOMAIN callbacks \/ callbacks'[s] # callbacks[s]) =>
              \E n \in branchAnimations' \ branchAnimations : n.start = s

\* the groups in flight lie on different branches, and every group above a
\* group in flight has completed
SequentialAlongBranch ==
    /\ \A a, b \in branchAnimations :
          a # b => (a.end <= b.start \/ b.end <= a.start)
    /\ \A a \in branchAnimations :
          /\ \A g \in branchAnimations \cup completed :
                OnBranchAbove(g, a) => g \in completed
          /\ Cardinality({g \in completed : OnBranchAbove(g, a)}) = a.level - 1

\* C5: the level callback and the animation of a child group are started only
\* after the animation of its parent group has completed; along a root-to-leaf
\* branch the groups are animated strictly one after another.
C5_ChildAfterParent ==
    [][StartedByParentCompletion /\ SequentialAlongBranch']_vars

\* C5 witness: a group of level 3 is in flight, its parent and the root done
C5_Witness ==
    \E a \in branchAnimations :
        /\ a.level = 3
        /\ Cardinality({g \in completed : OnBranchAbove(g, a)}) = 2

\* l and r are the left and the right child group of a completed group
Siblings(l, r) ==
    /\ l.end = r.start
    /\ l.level = r.level
    /\ \E p \in completed :
          /\ l.start = p.start + jump
          /\ r.end = p.end
          /\ l.level = p.level + 1

\* C6: both child reveals of a group are started in the completion step of the
\* parent, so two sibling groups are in flight at the same time (and either
\* may complete first, see the witness).
C6_SiblingsStartTogether ==
    [][\A a \in branchAnimations \ branchAnimations' :
          a.end - a.start >= 3 * jump =>
              \E l, r \in branchAnimations' \ branchAnimations :
                  /\ l.start = a.start + jump
                  /\ l.end = r.start
                  /\ r.end = a.end
                  /\ l.level = a.level + 1
                  /\ r.level = a.level + 1
                  /\ l \notin completed' /\ r \notin completed']_vars

\* C6 witness: of one pair of siblings the right one has completed while the
\* left one is in flight, of another pair the left one has completed while the
\* right one is in flight
C6_Witness ==
    /\ \E l \in branchAnimations, r \in completed : Siblings(l, r)
    /\ \E l \in completed, r \in branchAnimations : Siblings(l, r)

(***************************************************************************)
(* Geometry of the triangle generators.                                    *)
(*                                                                         *)
(* Angles are counted in units of 60 degrees (every angle the triangle and *)
(* arrowhead generators compute is a multiple of it).  Lengths and X are   *)
(* integers, counted in units of 1/Scale: the generators only halve.  A Y  *)
(* coordinate is <<a, b>>, standing for a + b * sqrt(3)/2, so a height     *)
(* sideLength * sin(60 degrees) is the integer sideLength of such units.   *)
(* A point {X, Y} is <<X, Y>>, a segment ["L", X, Y] is <<"L", X, Y>>.      *)
(***************************************************************************)
Scale == Pow(2, Max(MaxLevel, 3) + 3)

\* RADIANS_60_DEGREES, in units of 60 degrees
RADIANS_60_DEGREES == 1

\* 2 * Math.cos(k * RADIANS_60_DEGREES)
Cos6x2(k) ==
    CASE k % 6 = 0 -> 2
      [] k % 6 = 1 -> 1
      [] k % 6 = 2 -> -1
      [] k % 6 = 3 -> -2
      [] k % 6 = 4 -> -1
      [] k % 6 = 5 -> 1

\* Math.sin(k * RADIANS_60_DEGREES), in units of sqrt(3)/2
Sin6(k) ==
    CASE k % 6 = 0 -> 0
      [] k % 6 = 1 -> 1
      [] k % 6 = 2 -> 1
      [] k % 6 = 3 -> 0
      [] k % 6 = 4 -> -1
      [] k % 6 = 5 -> -1

\* y + h * sqrt(3)/2
YPlus(y, h) == <<y[1], y[2] + h>>

\* what a function returns when it returns no value
Undefined == <<>>

\* getTriangleHeight(angle, hypotenuseLength), in units of sqrt(3)/2
getTriangleHeight(angle, hypotenuseLength) == hypotenuseLength * Sin6(angle)

\* angle < 360 && angle > -360, for the angle of k units of 60 degrees, which
\* is k * pi / 3 radians: k * pi < 1080.  355/113 decides it for every integer
\* k, as 343 * pi < 1080 < 344 * pi holds of pi and of 355/113 alike.
angleAccepted(k) == k * 355 < 1080 * 113 /\ k * 355 > -1080 * 113

\* getNextPoint(fromPoint, distance, angle)
getNextPoint(fromPoint, distance, angle) ==
    IF ~angleAccepted(angle)
    THEN Undefined
    ELSE <<fromPoint[1] + (distance * Cos6x2(angle)) \div 2,
           YPlus(fromPoint[2], distance * Sin6(angle))>>

\* addLine(pathList, nextPoint).  Reading nextPoint.X of an undefined
\* nextPoint throws a TypeError: the entry <<"TypeError">> marks the place
\* where the call that builds the path is aborted.
addLine(pathList, nextPoint) ==
    IF nextPoint = Undefined
    THEN Append(pathList, <<"TypeError">>)
    ELSE Append(pathList, <<"L", nextPoint[1], nextPoint[2]>>)

\* orientation || 1
orDefault1(orientation) == IF orientation = 0 THEN 1 ELSE orientation

\* the loop of getEquilateralTrianglePathList: i more sides from point
RECURSIVE triangleSides(_, _, _, _, _, _)
triangleSides(i, pathList, point, angle, sideLength, orientation) ==
    IF i <= 0 \/ point = Undefined
    THEN pathList
    ELSE LET next == getNextPoint(point, sideLength, angle)
         IN  triangleSides(i - 1, addLine(pathList, next), next,
                           angle + orientation * 2, sideLength, orientation)

\* getEquilateralTrianglePathList with a loop that ends after two sides
getEquilateralTrianglePathList_twoSides(startPoint, sideLength, orientation) ==
    triangleSides(2, << <<"M", startPoint[1], startPoint[2]>> >>, startPoint, 0,
                  sideLength, orDefault1(orientation))

\* getEquilateralTrianglePathList(startPoint, sideLength, orientation)
getEquilateralTrianglePathList(startPoint, sideLength, orientation) ==
    triangleSides(3, << <<"M", startPoint[1], startPoint[2]>> >>, startPoint, 0,
                  sideLength, orDefault1(orientation))

\* the start point and the three child centers of the triangle drawn around
\* centerPoint by either routine
triStartPoint(centerPoint, sideLength, orientation) ==
    LET height == getTriangleHeight(RADIANS_60_DEGREES, sideLength)
    IN  <<centerPoint[1] - sideLength \div 2,
          YPlus(centerPoint[2], -(orientation * (height \div 2)))>>

leftCenterPoint(centerPoint, sideLength, orientation) ==
    LET height == getTriangleHeight(RADIANS_60_DEGREES, sideLength)
    IN  <<centerPoint[1] - sideLength \div 2,
          YPlus(centerPoint[2], orientation * (height \div 4))>>

rightCenterPoint(centerPoint, sideLength, orientation) ==
    LET height == getTriangleHeight(RADIANS_60_DEGREES, sideLength)
    IN  <<centerPoint[1] + sideLength \div 2,
          YPlus(centerPoint[2], orientation * (height \div 4))>>

verticalCenterPoint(centerPoint, sideLength, orientation) ==
    LET height == getTriangleHeight(RADIANS_60_DEGREES, sideLength)
    IN  <<centerPoint[1],
          YPlus(centerPoint[2], -(orientation * ((3 * height) \div 4)))>>

\* options.levelChange || {l: 1, r: 1, v: 1}
DefaultLevelChange == [l |-> 1, r |-> 1, v |-> 1]

\* the recursive routine without the recursion into the vertical triangle
RECURSIVE recursiveRoutine_noVertical(_, _, _, _, _)
recursiveRoutine_noVertical(centerPoint, sideLength, level, orientation, levelChange) ==
    IF level <= 0
    THEN <<>>
    ELSE getEquilateralTrianglePathList(
             triStartPoint(centerPoint, sideLength, orientation), sideLength, orientation)
         \o recursiveRoutine_noVertical(
                leftCenterPoint(centerPoint, sideLength, orientation),
                sideLength \div 2, level - levelChange.l, orientation, levelChange)
         \o recursiveRoutine_noVertical(
                rightCenterPoint(centerPoint, sideLength, orientation),
                sideLength \div 2, level - levelChange.r, orientation, levelChange)

\* the recursive routine concatenating the right triangle before the left
RECURSIVE recursiveRoutine_rightFirst(_, _, _, _, _)
recursiveRoutine_rightFirst(centerPoint, sideLength, level, orientation, levelChange) ==
    IF level <= 0
    THEN <<>>
    ELSE getEquilateralTrianglePathList(
             triStartPoint(centerPoint, sideLength, orientation), sideLength, orientation)
         \o recursiveRoutine_rightFirst(
                rightCenterPoint(centerPoint, sideLength, orientation),
                sideLength \div 2, level - levelChange.r, orientation, levelChange)
         \o recursiveRoutine_rightFirst(
                leftCenterPoint(centerPoint, sideLength, orientation),
                sideLength \div 2, level - levelChange.l, orientation, levelChange)
         \o recursiveRoutine_rightFirst(
                verticalCenterPoint(centerPoint, sideLength, orientation),
                sideLength \div 2, level - levelChange.v, orientation, levelChange)

\* recursiveSierpinskiTriangleRoutine(centerPoint, sideLength, level,
\* orientation, options), options giving levelChange
RECURSIVE recursiveSierpinskiTriangleRoutine(_, _, _, _, _)
recursiveSierpinskiTriangleRoutine(centerPoint, sideLength, level, orientation, levelChange) ==
    IF level <= 0
    THEN <<>>
    ELSE getEquilateralTrianglePathList(
             triStartPoint(centerPoint, sideLength, orientation), sideLength, orientation)
         \o recursiveSierpinskiTriangleRoutine(
                leftCenterPoint(centerPoint, sideLength, orientation),
                sideLength \div 2, level - levelChange.l, orientation, levelChange)
         \o recursiveSierpinskiTriangleRoutine(
                rightCenterPoint(centerPoint, sideLength, orientation),
                sideLength \div 2, level - levelChange.r, orientation, levelChange)
         \o recursiveSierpinskiTriangleRoutine(
                verticalCenterPoint(centerPoint, sideLength, orientation),
                sideLength \div 2, level - levelChange.v, orientation, levelChange)

\* the loop test with <= for <
queueBelowPow3_offByOne(length, level) ==
    IF level < 0 THEN length <= 0 ELSE length <= Pow(3, level)

\* triangleQueue.length < Math.pow(3, level); for a negative level the power
\* lies strictly between 0 and 1
queueBelowPow3(length, level) ==
    IF level < 0 THEN length <= 0 ELSE length < Pow(3, level)

\* level || 3
levelOrDefault(level) == IF level = 0 THEN 3 ELSE level

\* the coercion replacing only a falsy orientation, as orientation || 1 does
coerceOrientation_falsyOnly(orientation) == IF orientation = 0 THEN 1 ELSE orientation

\* if (!(orientation == -1 || orientation == 1)) orientation = 1;
coerceOrientation(orientation) ==
    IF ~(orientation = -1 \/ orientation = 1) THEN 1 ELSE orientation

\* getSierpinskiTriangle up to the call of innerTrianglesFunction: the outer
\* triangle and the arguments the inner triangles are generated with
outerTriangle(centerPoint, sideLength, orientation) ==
    LET height == getTriangleHeight(RADIANS_60_DEGREES, sideLength)
        startPoint == <<centerPoint[1] - sideLength \div 2,
                        YPlus(centerPoint[2], orientation * (height \div 2))>>
    IN  getEquilateralTrianglePathList(startPoint, sideLength, (-1) * orientation)

innerArgs(centerPoint, sideLength, level, orientation) ==
    LET height == getTriangleHeight(RADIANS_60_DEGREES, sideLength)
    IN  [centerPoint |-> <<centerPoint[1], YPlus(centerPoint[2], orientation * (height \div 4))>>,
         sideLength  |-> sideLength \div 2,
         level       |-> level,
         orientation |-> orientation]

\* getSierpinskiTriangle(centerPoint, sideLength, level, orientation, options)
\* with options.innerTrianglesFunction = recursiveSierpinskiTriangleRoutine:
\* the whole call
GetSierpinskiTriangleRecursive ==
    /\ triPc = "called"
    /\ triCall.entry = "getSierpinskiTriangle"
    /\ triCall.innerTrianglesFunction = "recursiveSierpinskiTriangleRoutine"
    /\ LET level == levelOrDefault(triCall.level)
           orientation == coerceOrientation(triCall.orientation)
           inner == innerArgs(triCall.centerPoint, triCall.sideLength, level, orientation)
           pathList == outerTriangle(triCall.centerPoint, triCall.sideLength, orientation)
       IN  /\ triArgs' = inner
           /\ triOuter' = pathList
           /\ triResult' = pathList \o recursiveSierpinskiTriangleRoutine(
                              inner.centerPoint, inner.sideLength, inner.level,
                              inner.orientation, triCall.levelChange)
    /\ triPc' = "done"
    /\ UNCHANGED <<triCall, triangleQueue, triPathList>>
    /\ UNCHANGED <<revealVars, branchVars, arrowVars, callVars>>

\* getSierpinskiTriangle with the default innerTrianglesFunction, up to the
\* loop of iterativeSierpinskiTriangleRoutine
GetSierpinskiTriangleIterative ==
    /\ triPc = "called"
    /\ triCall.entry = "getSierpinskiTriangle"
    /\ triCall.innerTrianglesFunction = "iterativeSierpinskiTriangleRoutine"
    /\ LET level == levelOrDefault(triCall.level)
           orientation == coerceOrientation(triCall.orientation)
           inner == innerArgs(triCall.centerPoint, triCall.sideLength, level, orientation)
       IN  /\ triArgs' = inner
           /\ triOuter' = outerTriangle(triCall.centerPoint, triCall.sideLength, orientation)
           /\ triangleQueue' = <<[centerPoint |-> inner.centerPoint,
                                  sideLength |-> inner.sideLength]>>
    /\ triPathList' = <<>>
    /\ triPc' = "loop"
    /\ UNCHANGED <<triCall, triResult>>
    /\ UNCHANGED <<revealVars, branchVars, arrowVars, callVars>>

\* iterativeSierpinskiTriangleRoutine(centerPoint, sideLength, level,
\* orientation) called directly, up to its loop
IterativeRoutineCalled ==
    /\ triPc = "called"
    /\ triCall.entry = "iterativeSierpinskiTriangleRoutine"
    /\ triArgs' = [centerPoint |-> triCall.centerPoint, sideLength |-> triCall.sideLength,
                   level |-> triCall.level, orientation |-> triCall.orientation]
    /\ triangleQueue' = <<[centerPoint |-> triCall.centerPoint,
                           sideLength |-> triCall.sideLength]>>
    /\ triPathList' = <<>>
    /\ triPc' = "loop"
    /\ UNCHANGED <<triCall, triOuter, triResult>>
    /\ UNCHANGED <<revealVars, branchVars, arrowVars, callVars>>

\* an iteration that takes the triangle pushed last (pop) where the routine
\* takes the one pushed first (shift)
IterativeStep_lifo ==
    /\ triPc = "loop"
    /\ queueBelowPow3(Len(triangleQueue), triArgs.level)
    /\ LET nextTriangle == triangleQueue[Len(triangleQueue)]
           centerPoint == nextTriangle.centerPoint
           sideLength == nextTriangle.sideLength
           trianglePathList ==
               getEquilateralTrianglePathList(
                   triStartPoint(centerPoint, sideLength, triArgs.orientation),
                   sideLength, triArgs.orientation)
       IN  /\ triPathList' = triPathList \o trianglePathList
           /\ triangleQueue' = SubSeq(triangleQueue, 1, Len(triangleQueue) - 1) \o
                 <<[centerPoint |-> leftCenterPoint(centerPoint, sideLength, triArgs.orientation),
                    sideLength |-> sideLength \div 2],
                   [centerPoint |-> rightCenterPoint(centerPoint, sideLength, triArgs.orientation),
                    sideLength |-> sideLength \div 2],
                   [centerPoint |-> verticalCenterPoint(centerPoint, sideLength, triArgs.orientation),
                    sideLength |-> sideLength \div 2]>>
    /\ UNCHANGED <<triCall, triPc, triArgs, triOuter, triResult>>
    /\ UNCHANGED <<revealVars, branchVars, arrowVars, callVars>>

\* one iteration of the loop of iterativeSierpinskiTriangleRoutine
IterativeStep ==
    /\ triPc = "loop"
    /\ queueBelowPow3(Len(triangleQueue), triArgs.level)
    /\ LET nextTriangle == Head(triangleQueue)
           centerPoint == nextTriangle.centerPoint
           sideLength == nextTriangle.sideLength
           trianglePathList ==
               getEquilateralTrianglePathList(
                   triStartPoint(centerPoint, sideLength, triArgs.orientation),
                   sideLength, triArgs.orientation)
       IN  /\ triPathList' = triPathList \o trianglePathList
           /\ triangleQueue' = Tail(triangleQueue) \o
                 <<[centerPoint |-> leftCenterPoint(centerPoint, sideLength, triArgs.orientation),
                    sideLength |-> sideLength \div 2],
                   [centerPoint |-> rightCenterPoint(centerPoint, sideLength, triArgs.orientation),
                    sideLength |-> sideLength \div 2],
                   [centerPoint |-> verticalCenterPoint(centerPoint, sideLength, triArgs.orientation),
                    sideLength |-> sideLength \div 2]>>
    /\ UNCHANGED <<triCall, triPc, triArgs, triOuter, triResult>>
    /\ UNCHANGED <<revealVars, branchVars, arrowVars, callVars>>

\* the loop ends: iterativeSierpinskiTriangleRoutine returns its pathList, and
\* getSierpinskiTriangle, when it made the call, the outer triangle with it
IterativeReturn ==
    /\ triPc = "loop"
    /\ ~queueBelowPow3(Len(triangleQueue), triArgs.level)
    /\ triResult' = triOuter \o triPathList
    /\ triPc' = "done"
    /\ UNCHANGED <<triCall, triArgs, triangleQueue, triPathList, triOuter>>
    /\ UNCHANGED <<revealVars, branchVars, arrowVars, callVars>>

\* recursiveSierpinskiTriangleRoutine called directly
RecursiveRoutineCalled ==
    /\ triPc = "called"
    /\ triCall.entry = "recursiveSierpinskiTriangleRoutine"
    /\ triArgs' = [centerPoint |-> triCall.centerPoint, sideLength |-> triCall.sideLength,
                   level |-> triCall.level, orientation |-> triCall.orientation]
    /\ triResult' = recursiveSierpinskiTriangleRoutine(triCall.centerPoint,
                        triCall.sideLength, triCall.level, triCall.orientation,
                        triCall.levelChange)
    /\ triPc' = "done"
    /\ UNCHANGED <<triCall, triangleQueue, triPathList, triOuter>>
    /\ UNCHANGED <<revealVars, branchVars, arrowVars, callVars>>

\* the calls made: the entry point, a center, the side length (100 pixels),
\* the level and the orientation
TriEntries ==
    {"getSierpinskiTriangle", "iterativeSierpinskiTriangleRoutine",
     "recursiveSierpinskiTriangleRoutine"}

\* the orientations a generator is called with: +1, -1, and 0 and 5 for the
\* values that are neither (0 also for a missing argument, falsy as it is)
Orientations == {1, -1, 0, 5}

CenterPoints == {<<0, <<0, 0>>>>, <<100 * Scale, <<100 * Scale, 0>>>>}

SideLength == 100 * Scale

InitTri ==
    /\ RevealInit
    /\ BranchIdle
    /\ ArrowIdle
    /\ CallIdle
    /\ \E entry \in TriEntries, centerPoint \in CenterPoints,
          level \in (-1)..MaxLevel, orientation \in Orientations,
          f \in {"iterativeSierpinskiTriangleRoutine", "recursiveSierpinskiTriangleRoutine"} :
          /\ entry # "getSierpinskiTriangle" => f = entry
          /\ triCall = [entry |-> entry, centerPoint |-> centerPoint,
                        sideLength |-> SideLength, level |-> level,
                        orientation |-> orientation,
                        innerTrianglesFunction |-> f,
                        levelChange |-> DefaultLevelChange]
    /\ triPc = "called"
    /\ triArgs = NoArgs
    /\ triangleQueue = <<>>
    /\ triPathList = <<>>
    /\ triOuter = <<>>
    /\ triResult = <<>>

NextTri ==
    \/ GetSierpinskiTriangleRecursive
    \/ GetSierpinskiTriangleIterative
    \/ IterativeRoutineCalled
    \/ IterativeStep
    \/ IterativeReturn
    \/ RecursiveRoutineCalled

SpecTri == InitTri /\ [][NextTri]_vars

(***************************************************************************)
(* Claims about the Sierpinski triangle generator.                         *)
(***************************************************************************)
\* the multiset of the entries of a path
BagOf(path) ==
    [x \in Range(path) |-> Cardinality({i \in DOMAIN path : path[i] = x})]

\* the number of entries of a path with the command c
CountCmd(path, c) == Cardinality({i \in DOMAIN path : path[i][1] = c})

\* iterativeSierpinskiTriangleRoutine has run and returned triPathList
IterativeReturned ==
    /\ triPc = "done"
    /\ triCall.innerTrianglesFunction = "iterativeSierpinskiTriangleRoutine"

\* what recursiveSierpinskiTriangleRoutine returns for the arguments the
\* iterative routine ran with
RecursiveForSameArgs ==
    recursiveSierpinskiTriangleRoutine(triArgs.centerPoint, triArgs.sideLength,
        triArgs.level, triArgs.orientation, DefaultLevelChange)

\* C7: for every depth (same center, side length and orientation) the
\* recursive and the iterative routine return paths of the same number of
\* segments and with the same multiset of segments (so of endpoints).
C7_RecursiveIterativeSameMultiset ==
    IterativeReturned =>
        /\ Len(triPathList) = Len(RecursiveForSameArgs)
        /\ BagOf(triPathList) = BagOf(RecursiveForSameArgs)

\* C7 witness: the iterative routine returned the 13 triangles of depth 3, in
\* an order other than the recursive routine's
C7_Witness ==
    /\ IterativeReturned
    /\ triArgs.level = 3
    /\ Len(triPathList) = 52
    /\ triPathList # RecursiveForSameArgs

\* getSierpinskiTriangle has returned
WrapperReturned ==
    /\ triPc = "done"
    /\ triCall.entry = "getSierpinskiTriangle"

\* C8 (as claimed): for depth d the Sierpinski triangle path has 3^d interior
\* triangles of 3 LineTo each, plus 3 LineTo for the outer triangle (stated
\* for the depths d >= 1, which getSierpinskiTriangle generates as given).
C8_AsClaimed_Pow3Triangles ==
    (WrapperReturned /\ triCall.level >= 1) =>
        CountCmd(triResult, "L") = 3 * Pow(3, triCall.level) + 3

\* the depth getSierpinskiTriangle generates for the depth d it is called with
EffectiveDepth(d) == IF d = 0 THEN 3 ELSE IF d < 0 THEN 0 ELSE d

\* C8 (amended): for depth d >= 1 the path has (3^d - 1)/2 interior triangles
\* (3^0 + ... + 3^(d-1)), each 1 MoveTo and 3 LineTo, plus the 1 MoveTo and
\* 3 LineTo of the outer triangle; depth 0 is replaced by the default 3, a
\* negative depth leaves the outer triangle alone; either routine called
\* directly emits (3^d - 1)/2 triangles for d >= 0 and none for d < 0.
C8_InteriorTriangleCount ==
    /\ WrapperReturned =>
          LET triangles == (Pow(3, EffectiveDepth(triCall.level)) - 1) \div 2
          IN  /\ CountCmd(triResult, "L") = 3 * triangles + 3
              /\ CountCmd(triResult, "M") = triangles + 1
              /\ Len(triResult) = 4 * triangles + 4
    /\ (triPc = "done" /\ triCall.entry # "getSierpinskiTriangle") =>
          LET triangles == (Pow(3, Max(triCall.level, 0)) - 1) \div 2
          IN  /\ CountCmd(triResult, "L") = 3 * triangles
              /\ CountCmd(triResult, "M") = triangles
              /\ Len(triResult) = 4 * triangles

\* C8 witness: getSierpinskiTriangle returned the path of depth 2, of
\* 4 interior triangles and the outer one
C8_Witness ==
    /\ WrapperReturned
    /\ triCall.level = 2
    /\ CountCmd(triResult, "L") = 15

(***************************************************************************)
(* The Sierpinski arrowhead curve generator.                               *)
(***************************************************************************)
\* addLine threw in building pathList: the calls that were building it are
\* aborted and nothing more is appended
Thrown(pathList) == Len(pathList) > 0 /\ pathList[Len(pathList)] = <<"TypeError">>

\* arrowheadCurve passing its own sideLength on instead of sideLength/2
RECURSIVE arrowheadCurve_noHalving(_, _, _, _, _, _, _)
arrowheadCurve_noHalving(level, pathList, fromPoint, sideLength, angle, angleChange, orientation) ==
    IF level = 0
    THEN LET nextPoint == getNextPoint(fromPoint, sideLength, orientation * angle)
         IN  [pathList |-> addLine(pathList, nextPoint), point |-> nextPoint, angle |-> angle]
    ELSE LET last1 == arrowheadCurve_noHalving(level - 1, pathList, fromPoint,
                          sideLength, angle, (-1) * angleChange, orientation)
             last2 == arrowheadCurve_noHalving(level - 1, last1.pathList, last1.point,
                          sideLength, last1.angle + angleChange * RADIANS_60_DEGREES,
                          angleChange, orientation)
         IN  IF Thrown(last1.pathList) THEN last1
             ELSE IF Thrown(last2.pathList) THEN last2
             ELSE arrowheadCurve_noHalving(level - 1, last2.pathList, last2.point,
                      sideLength, last2.angle + angleChange * RADIANS_60_DEGREES,
                      (-1) * angleChange, orientation)

\* arrowheadCurve(level, pathList, fromPoint, sideLength, angle, angleChange,
\* orientation), for level >= 0 (it does not return for a negative level):
\* the pathList it has appended to, and the point and angle it returns
RECURSIVE arrowheadCurve(_, _, _, _, _, _, _)
arrowheadCurve(level, pathList, fromPoint, sideLength, angle, angleChange, orientation) ==
    IF level = 0
    THEN LET nextPoint == getNextPoint(fromPoint, sideLength, orientation * angle)
         IN  [pathList |-> addLine(pathList, nextPoint), point |-> nextPoint, angle |-> angle]
    ELSE LET last1 == arrowheadCurve(level - 1, pathList, fromPoint,
                          sideLength \div 2, angle, (-1) * angleChange, orientation)
             last2 == arrowheadCurve(level - 1, last1.pathList, last1.point,
                          sideLength \div 2, last1.angle + angleChange * RADIANS_60_DEGREES,
                          angleChange, orientation)
         IN  IF Thrown(last1.pathList) THEN last1
             ELSE IF Thrown(last2.pathList) THEN last2
             ELSE arrowheadCurve(level - 1, last2.pathList, last2.point,
                      sideLength \div 2, last2.angle + angleChange * RADIANS_60_DEGREES,
                      (-1) * angleChange, orientation)

\* getSierpinskiArrowheadCurve starting with the heading 0 at every level
getSierpinskiArrowheadCurve_noParity(centerPoint, sideLength, optLevel, optOrientation) ==
    LET level == levelOrDefault(optLevel)
        orientation == coerceOrientation(optOrientation)
        height == getTriangleHeight(RADIANS_60_DEGREES, sideLength)
        startPoint == <<centerPoint[1] - sideLength \div 2,
                        YPlus(centerPoint[2], orientation * (height \div 2))>>
        pathList == << <<"M", startPoint[1], startPoint[2]>> >>
    IN  arrowheadCurve(level, pathList, startPoint, sideLength, 0, 1, orientation).pathList

\* getSierpinskiArrowheadCurve(centerPoint, sideLength, options), options
\* giving level and orientation
getSierpinskiArrowheadCurve(centerPoint, sideLength, optLevel, optOrientation) ==
    LET level == levelOrDefault(optLevel)
        orientation == coerceOrientation(optOrientation)
        height == getTriangleHeight(RADIANS_60_DEGREES, sideLength)
        startPoint == <<centerPoint[1] - sideLength \div 2,
                        YPlus(centerPoint[2], orientation * (height \div 2))>>
        pathList == << <<"M", startPoint[1], startPoint[2]>> >>
        angle == IF level % 2 = 0 THEN 0 ELSE 0 - RADIANS_60_DEGREES
    IN  arrowheadCurve(level, pathList, startPoint, sideLength, angle, 1, orientation).pathList

\* getSierpinskiArrowheadCurve is called and returns
GetSierpinskiArrowheadCurve ==
    /\ arrowPc = "called"
    /\ arrowCall.entry = "getSierpinskiArrowheadCurve"
    /\ arrowResult' = getSierpinskiArrowheadCurve(arrowCall.centerPoint, arrowCall.sideLength,
                                                  arrowCall.level, arrowCall.orientation)
    /\ arrowPc' = "done"
    /\ UNCHANGED <<arrowCall, arrowStack>>
    /\ UNCHANGED <<revealVars, branchVars, triVars, callVars>>

\* arrowheadCurve is called on a pathList holding the MoveTo to fromPoint, and
\* returns
ArrowheadCurveCalled ==
    /\ arrowPc = "called"
    /\ arrowCall.entry = "arrowheadCurve"
    /\ arrowResult' =
          arrowheadCurve(arrowCall.level,
                         << <<"M", arrowCall.centerPoint[1], arrowCall.centerPoint[2]>> >>,
                         arrowCall.centerPoint, arrowCall.sideLength, arrowCall.angle,
                         arrowCall.angleChange, arrowCall.orientation).pathList
    /\ arrowPc' = "done"
    /\ UNCHANGED <<arrowCall, arrowStack>>
    /\ UNCHANGED <<revealVars, branchVars, triVars, callVars>>

InitArrow ==
    /\ RevealInit
    /\ BranchIdle
    /\ TriIdle
    /\ CallIdle
    /\ \/ \E centerPoint \in CenterPoints, level \in 0..MaxLevel,
             orientation \in Orientations :
             arrowCall = [entry |-> "getSierpinskiArrowheadCurve",
                          centerPoint |-> centerPoint, sideLength |-> SideLength,
                          level |-> level, orientation |-> orientation,
                          angle |-> 0, angleChange |-> 1]
       \/ \E fromPoint \in CenterPoints, level \in 0..MaxLevel, orientation \in {1, -1},
             angle \in {0, 0 - RADIANS_60_DEGREES}, angleChange \in {1, -1} :
             arrowCall = [entry |-> "arrowheadCurve",
                          centerPoint |-> fromPoint, sideLength |-> SideLength,
                          level |-> level, orientation |-> orientation,
                          angle |-> angle, angleChange |-> angleChange]
    /\ arrowPc = "called"
    /\ arrowResult = <<>>
    /\ arrowStack = <<>>

NextArrow == GetSierpinskiArrowheadCurve \/ ArrowheadCurveCalled

SpecArrow == InitArrow /\ [][NextArrow]_vars

(***************************************************************************)
(* Claims about the arrowhead curve generator.                             *)
(***************************************************************************)
ArrowWrapperReturned ==
    arrowPc = "done" /\ arrowCall.entry = "getSierpinskiArrowheadCurve"

ArrowRoutineReturned ==
    arrowPc = "done" /\ arrowCall.entry = "arrowheadCurve"

\* C9 (as claimed): for every depth d >= 0, d = 0 included,
\* getSierpinskiArrowheadCurve returns one MoveTo followed by exactly 3^d
\* LineTo segments.
C9_AsClaimed_Pow3LineTo ==
    ArrowWrapperReturned =>
        /\ Len(arrowResult) = Pow(3, arrowCall.level) + 1
        /\ arrowResult[1][1] = "M"
        /\ \A i \in 2..Len(arrowResult) : arrowResult[i][1] = "L"

Abs(x) == IF x < 0 THEN -x ELSE x

\* the distance between two points whose Y differ by a multiple of sqrt(3)/2:
\* the l with l^2 = dx^2 + (3/4) db^2
SegLen(p, q) ==
    LET dx == q[1] - p[1]
        db == q[2][2] - p[2][2]
    IN  IF db = 0 THEN Abs(dx)
        ELSE IF 2 * Abs(dx) = Abs(db) THEN Abs(db)
        ELSE CHOOSE l \in 0..(Abs(dx) + Abs(db)) : 4 * l * l = 4 * dx * dx + 3 * db * db

PointOf(entry) == <<entry[2], entry[3]>>

\* the sum of the lengths of the LineTo segments of the first n entries
RECURSIVE ChainLengthUpTo(_, _)
ChainLengthUpTo(path, n) ==
    IF n <= 1 THEN 0
    ELSE ChainLengthUpTo(path, n - 1) + SegLen(PointOf(path[n - 1]), PointOf(path[n]))

ChainLength(path) == ChainLengthUpTo(path, Len(path))

\* C10 (as claimed): for any depth d the sum of the lengths of the LineTo
\* segments of the arrowhead curve equals the initial sideLength.
C10_AsClaimed_ChainLengthIsSideLength ==
    ArrowRoutineReturned =>
        ChainLength(arrowResult) = arrowCall.sideLength

\* C10 (amended): for depth d >= 0 arrowheadCurve emits 3^d LineTo segments
\* of length sideLength / 2^d each, so the chain length is
\* sideLength * (3/2)^d; it equals sideLength for d = 0 only.
C10_ChainLengthGrows ==
    ArrowRoutineReturned =>
        /\ Len(arrowResult) = Pow(3, arrowCall.level) + 1
        /\ \A i \in 2..Len(arrowResult) :
              /\ arrowResult[i][1] = "L"
              /\ SegLen(PointOf(arrowResult[i - 1]), PointOf(arrowResult[i]))
                     * Pow(2, arrowCall.level) = arrowCall.sideLength
        /\ ChainLength(arrowResult) * Pow(2, arrowCall.level)
               = arrowCall.sideLength * Pow(3, arrowCall.level)
        /\ (ChainLength(arrowResult) = arrowCall.sideLength) <=> (arrowCall.level = 0)

\* C10 witness: arrowheadCurve returned the 9 segments of depth 2, of chain
\* length 9/4 of the side length
C10_Witness ==
    /\ ArrowRoutineReturned
    /\ arrowCall.level = 2
    /\ Len(arrowResult) = 10
    /\ 4 * ChainLength(arrowResult) = 9 * arrowCall.sideLength

(***************************************************************************)
(* The Pythagoras tree generator, called on its own.                       *)
(***************************************************************************)
\* options.levels || 4
DefaultLevels == 4

\* getPythagorasTree(origin, sideLength, options), options giving levels,
\* orientation and edgePathFunction; 0 and "undefined" stand for the falsy
\* values that || replaces by the default
getPythagorasTree(origin, sideLength, optLevels, optOrientation, optEdgePathFunction) ==
    LET levels == IF optLevels = 0 THEN DefaultLevels ELSE optLevels
        orientation == IF optOrientation = 0 THEN TreeOrientation ELSE optOrientation
        edgePathFunction == IF optEdgePathFunction = "undefined"
                            THEN "getStraightPath" ELSE optEdgePathFunction
    IN  pythagorasTreeRoutine(levels, <<>>, origin, orientation, sideLength, edgePathFunction)

\* getPythagorasTree is called and returns its pathList
GetPythagorasTree ==
    /\ callPc = "called"
    /\ call.entry = "getPythagorasTree"
    /\ callResult' = getPythagorasTree(call.origin, call.sideLength, call.level,
                                       call.orientation, call.edgePathFunction)
    /\ callPc' = "done"
    /\ UNCHANGED call
    /\ UNCHANGED <<revealVars, branchVars, triVars, arrowVars>>

\* pythagorasTreeRoutine is called on an empty pathList and returns; the
\* result is the pathList it has appended to
PythagorasTreeRoutineCalled ==
    /\ callPc = "called"
    /\ call.entry = "pythagorasTreeRoutine"
    /\ callResult' = pythagorasTreeRoutine(call.level, <<>>, call.origin, call.orientation,
                                           call.sideLength, call.edgePathFunction)
    /\ callPc' = "done"
    /\ UNCHANGED call
    /\ UNCHANGED <<revealVars, branchVars, triVars, arrowVars>>

TreeOrientations == {TreeOrientation, 0, 1}

InitTree ==
    /\ RevealInit
    /\ BranchIdle
    /\ TriIdle
    /\ ArrowIdle
    /\ \/ \E level \in (-1)..MaxTreeLevel, orientation \in TreeOrientations,
             f \in EdgePathFunctions \cup {"undefined"} :
             call = [entry |-> "getPythagorasTree", origin |-> TreeOrigin,
                     sideLength |-> TreeSideLength, level |-> level,
                     orientation |-> orientation, edgePathFunction |-> f]
       \/ \E level \in (-1)..MaxTreeLevel, orientation \in TreeOrientations,
             f \in EdgePathFunctions :
             call = [entry |-> "pythagorasTreeRoutine", origin |-> TreeOrigin,
                     sideLength |-> TreeSideLength, level |-> level,
                     orientation |-> orientation, edgePathFunction |-> f]
    /\ callPc = "called"
    /\ callResult = <<>>

NextTree == GetPythagorasTree \/ PythagorasTreeRoutineCalled

SpecTree == InitTree /\ [][NextTree]_vars

(***************************************************************************)
(* Claims about the Pythagoras tree generator.                             *)
(***************************************************************************)
TreeRoutineReturned == callPc = "done" /\ call.entry = "pythagorasTreeRoutine"

TreeWrapperReturned == callPc = "done" /\ call.entry = "getPythagorasTree"

EdgeCommands == {"L", "S", "A", "R"}

\* the entries of path are groups of jump entries: 2 MoveTo, then 4 edges
GroupsOfSix(path) ==
    /\ Len(path) % jump = 0
    /\ \A g \in 0..(Len(path) \div jump - 1) :
          /\ path[jump * g + 1][1] = "M"
          /\ path[jump * g + 2][1] = "M"
          /\ \A k \in 3..jump : path[jump * g + k][1] \in EdgeCommands

\* C11 (as claimed): for depth d the Pythagoras tree generator emits exactly
\* 2^(d+1) - 1 squares, one group of 6 entries (2 MoveTo, 4 edges) each
\* (stated for the levels d >= 1, which draw at least one square).
C11_AsClaimed_SquareCount ==
    (TreeRoutineReturned /\ call.level >= 1) =>
        /\ Len(callResult) = jump * (Pow(2, call.level + 1) - 1)
        /\ GroupsOfSix(callResult)

\* the levels getPythagorasTree generates for the levels it is called with
EffectiveLevels(d) == IF d = 0 THEN DefaultLevels ELSE IF d < 0 THEN 0 ELSE d

\* C11 (amended): called with level d >= 0 the generator emits exactly
\* 2^d - 1 squares (none for d <= 0), one group of 6 entries each: 2 MoveTo
\* followed by 4 edges; getPythagorasTree does so for the levels it generates.
C11_SquareCount ==
    /\ TreeRoutineReturned =>
          /\ Len(callResult) = jump * (Pow(2, Max(call.level, 0)) - 1)
          /\ GroupsOfSix(callResult)
    /\ TreeWrapperReturned =>
          /\ Len(callResult) = jump * (Pow(2, EffectiveLevels(call.level)) - 1)
          /\ GroupsOfSix(callResult)

\* C11 witness: pythagorasTreeRoutine returned the 7 squares of 3 levels
C11_Witness ==
    /\ TreeRoutineReturned
    /\ call.level = 3
    /\ Len(callResult) = 7 * jump
    /\ callResult[7][1] = "M"

(***************************************************************************)
(* getEquilateralTrianglePathList called on its own, and the generators    *)
(* taken together.                                                         *)
(***************************************************************************)
\* getEquilateralTrianglePathList(startPoint, sideLength, orientation) is
\* called and returns its pathList
EquilateralTriangleCalled ==
    /\ callPc = "called"
    /\ call.entry = "getEquilateralTrianglePathList"
    /\ callResult' = getEquilateralTrianglePathList(call.startPoint, call.sideLength,
                                                    call.orientation)
    /\ callPc' = "done"
    /\ UNCHANGED call
    /\ UNCHANGED <<revealVars, branchVars, triVars, arrowVars>>

InitEquilateral ==
    /\ RevealInit
    /\ BranchIdle
    /\ TriIdle
    /\ ArrowIdle
    /\ \E startPoint \in CenterPoints, orientation \in Orientations :
          call = [entry |-> "getEquilateralTrianglePathList", startPoint |-> startPoint,
                  sideLength |-> SideLength, orientation |-> orientation]
    /\ callPc = "called"
    /\ callResult = <<>>

\* one call of one generator
InitGen == InitTri \/ InitArrow \/ InitTree \/ InitEquilateral

NextGen == NextTri \/ NextArrow \/ NextTree \/ EquilateralTriangleCalled

SpecGen == InitGen /\ [][NextGen]_vars

(***************************************************************************)
(* Claims about the generators taken together.                             *)
(***************************************************************************)
EquilateralReturned == callPc = "done" /\ call.entry = "getEquilateralTrianglePathList"

Coerced(orientation) == ~(orientation = -1 \/ orientation = 1)

\* getSierpinskiTriangle returned what it returns for the orientation o: the
\* outer triangle for o, followed by what the inner routine returns for the
\* arguments of o (the iterative routine's path, compared as the segments held)
TriangleWrapperAsWith(o) ==
    LET level == levelOrDefault(triCall.level)
        inner == innerArgs(triCall.centerPoint, triCall.sideLength, level, o)
        outer == outerTriangle(triCall.centerPoint, triCall.sideLength, o)
        recursive == recursiveSierpinskiTriangleRoutine(inner.centerPoint, inner.sideLength,
                         inner.level, inner.orientation, triCall.levelChange)
    IN  /\ triArgs = inner
        /\ triOuter = outer
        /\ SubSeq(triResult, 1, Len(outer)) = outer
        /\ IF triCall.innerTrianglesFunction = "recursiveSierpinskiTriangleRoutine"
           THEN triResult = outer \o recursive
           ELSE BagOf(triResult) = BagOf(outer \o recursive)

ArrowWrapperAsWith(o) ==
    arrowResult = getSierpinskiArrowheadCurve(arrowCall.centerPoint, arrowCall.sideLength,
                                              arrowCall.level, o)

EquilateralAsWith(o) ==
    callResult = getEquilateralTrianglePathList(call.startPoint, call.sideLength, o)

TreeWrapperAsWith(o) ==
    callResult = getPythagorasTree(call.origin, call.sideLength, call.level, o,
                                   call.edgePathFunction)

\* C12 (as claimed): a generator called with an orientation other than +1 / -1
\* (0 or 5) returns the path it returns for orientation +1: the triangle
\* wrapper, the arrowhead wrapper and getEquilateralTrianglePathList.
C12_AsClaimed_CoercedToPlusOne ==
    /\ (WrapperReturned /\ Coerced(triCall.orientation)) => TriangleWrapperAsWith(1)
    /\ (ArrowWrapperReturned /\ Coerced(arrowCall.orientation)) => ArrowWrapperAsWith(1)
    /\ (EquilateralReturned /\ Coerced(call.orientation)) => EquilateralAsWith(1)

\* C12 (what the code does): getSierpinskiTriangle and
\* getSierpinskiArrowheadCurve called with an orientation other than
\* +1 / -1 return the path of orientation +1;
\* getEquilateralTrianglePathList replaces only a missing or 0 orientation by
\* +1 and turns by orientation * 120 degrees for any other value (5 gives the
\* triangle of -1, not of +1); getPythagorasTree takes orientation as an
\* angle and replaces only a missing or 0 orientation, by -90 degrees.
C12_OrientationCoercion ==
    /\ (WrapperReturned /\ Coerced(triCall.orientation)) => TriangleWrapperAsWith(1)
    /\ (ArrowWrapperReturned /\ Coerced(arrowCall.orientation)) => ArrowWrapperAsWith(1)
    /\ (EquilateralReturned /\ call.orientation = 0) => EquilateralAsWith(1)
    /\ (EquilateralReturned /\ call.orientation = 5) =>
          (EquilateralAsWith(-1) /\ ~EquilateralAsWith(1))
    /\ (TreeWrapperReturned /\ call.orientation = 0) => TreeWrapperAsWith(TreeOrientation)
    /\ (TreeWrapperReturned /\ call.orientation = 0 /\ call.level >= 0) =>
          ~TreeWrapperAsWith(1)

\* C12 witness: getSierpinskiTriangle called with orientation 5 returned the
\* outer triangle and the 4 interior triangles of depth 2
C12_Witness ==
    /\ WrapperReturned
    /\ triCall.orientation = 5
    /\ triCall.level = 2
    /\ Len(triResult) = 20

\* C13 (as claimed): getSierpinskiTriangle called with depth 0 (center
\* {X: 100, Y: 100}, sideLength 100, orientation 1) returns only the outer
\* triangle: 1 MoveTo followed by 3 LineTo, and no interior triangle.
C13_AsClaimed_DepthZeroOuterOnly ==
    (/\ WrapperReturned
     /\ triCall.level = 0
     /\ triCall.centerPoint = <<100 * Scale, <<100 * Scale, 0>>>>
     /\ triCall.sideLength = 100 * Scale
     /\ triCall.orientation = 1) =>
        /\ Len(triResult) = 4
        /\ triResult[1][1] = "M"
        /\ \A i \in 2..4 : triResult[i][1] = "L"
        /\ triResult = outerTriangle(triCall.centerPoint, triCall.sideLength, 1)

\* C14 (as claimed): every non-empty path returned by a generator (triangle
\* wrapper, arrowhead curve, Pythagoras tree) begins with exactly one MoveTo:
\* its first entry is a MoveTo and its second entry is not.
C14_AsClaimed_OneLeadingMoveTo ==
    /\ WrapperReturned =>
          (Len(triResult) >= 2 /\ triResult[1][1] = "M" /\ triResult[2][1] # "M")
    /\ ArrowWrapperReturned =>
          (Len(arrowResult) >= 2 /\ arrowResult[1][1] = "M" /\ arrowResult[2][1] # "M")
    /\ (TreeWrapperReturned /\ callResult # <<>>) =>
          (Len(callResult) >= 2 /\ callResult[1][1] = "M" /\ callResult[2][1] # "M")

\* C14 (amended): the paths of the triangle wrapper and of the arrowhead
\* wrapper begin with one MoveTo followed by a LineTo; the path of the
\* Pythagoras tree is empty when no level is drawn and otherwise begins with
\* two MoveTo (the center of the root square, then its bottom left corner)
\* followed by an edge.
C14_LeadingMoveTo ==
    /\ WrapperReturned =>
          (Len(triResult) >= 2 /\ triResult[1][1] = "M" /\ triResult[2][1] = "L")
    /\ ArrowWrapperReturned =>
          (Len(arrowResult) >= 2 /\ arrowResult[1][1] = "M" /\ arrowResult[2][1] = "L")
    /\ (TreeWrapperReturned \/ TreeRoutineReturned) =>
          IF call.level < 0 \/ (TreeRoutineReturned /\ call.level = 0)
          THEN callResult = <<>>
          ELSE /\ Len(callResult) >= 3
               /\ callResult[1] = <<"M", call.origin[1], call.origin[2]>>
               /\ callResult[2][1] = "M"
               /\ callResult[3][1] \in EdgeCommands

\* C14 witness: getPythagorasTree returned the 3 squares of 2 levels, the
\* path beginning with two MoveTo
C14_Witness ==
    /\ TreeWrapperReturned
    /\ call.level = 2
    /\ Len(callResult) = 3 * jump
    /\ callResult[1][1] = "M"
    /\ callResult[2][1] = "M"

(***************************************************************************)
(* The geometry utilities, called on their own.                            *)
(***************************************************************************)
\* RADIANS_360_DEGREES, in units of 60 degrees
RADIANS_360_DEGREES == 6

\* getNextPoint(fromPoint, distance, angle) as the earlier versions have it:
\* if (angle > RADIANS_360_DEGREES || angle < (-1)*RADIANS_360_DEGREES) return;
getNextPointRadians(fromPoint, distance, angle) ==
    IF angle > RADIANS_360_DEGREES \/ angle < (-1) * RADIANS_360_DEGREES
    THEN Undefined
    ELSE <<fromPoint[1] + (distance * Cos6x2(angle)) \div 2,
           YPlus(fromPoint[2], distance * Sin6(angle))>>

\* getNextPoint of util.js is called and returns
GetNextPointCalled ==
    /\ callPc = "called"
    /\ call.entry = "getNextPoint"
    /\ callResult' = getNextPoint(call.fromPoint, call.distance, call.angle)
    /\ callPc' = "done"
    /\ UNCHANGED call
    /\ UNCHANGED <<revealVars, branchVars, triVars, arrowVars>>

\* getNextPoint of the earlier versions is called and returns
GetNextPointRadiansCalled ==
    /\ callPc = "called"
    /\ call.entry = "getNextPoint (earlier version)"
    /\ callResult' = getNextPointRadians(call.fromPoint, call.distance, call.angle)
    /\ callPc' = "done"
    /\ UNCHANGED call
    /\ UNCHANGED <<revealVars, branchVars, triVars, arrowVars>>

\* the smallest multiple of 60 degrees that is not less than 360 radians
\* (344 * pi / 3 = 360.2), the bound of getNextPoint
RejectedAngle == 344

\* the smallest orientation whose turn of orientation * 120 degrees is not
\* less than 360 radians
RejectedOrientation == 172

InitUtil ==
    /\ RevealInit
    /\ BranchIdle
    /\ TriIdle
    /\ \/ /\ ArrowIdle
          /\ \E entry \in {"getNextPoint", "getNextPoint (earlier version)"},
                fromPoint \in CenterPoints, distance \in {SideLength, SideLength \div 2},
                angle \in (-MaxAngle)..MaxAngle :
                call = [entry |-> entry, fromPoint |-> fromPoint, distance |-> distance,
                        angle |-> angle]
          /\ callPc = "called"
          /\ callResult = <<>>
       \/ /\ ArrowIdle
          /\ \E startPoint \in CenterPoints,
                orientation \in {1, -1, RejectedOrientation, -RejectedOrientation} :
                call = [entry |-> "getEquilateralTrianglePathList", startPoint |-> startPoint,
                        sideLength |-> SideLength, orientation |-> orientation]
          /\ callPc = "called"
          /\ callResult = <<>>
       \/ /\ CallIdle
          /\ \E fromPoint \in CenterPoints, level \in 0..1, orientation \in {1, -1},
                angle \in {0, RejectedAngle - 1, RejectedAngle, -RejectedAngle} :
                arrowCall = [entry |-> "arrowheadCurve",
                             centerPoint |-> fromPoint, sideLength |-> SideLength,
                             level |-> level, orientation |-> orientation,
                             angle |-> angle, angleChange |-> 1]
          /\ arrowPc = "called"
          /\ arrowResult = <<>>
          /\ arrowStack = <<>>

NextUtil ==
    \/ GetNextPointCalled
    \/ GetNextPointRadiansCalled
    \/ EquilateralTriangleCalled
    \/ ArrowheadCurveCalled

SpecUtil == InitUtil /\ [][NextUtil]_vars

(***************************************************************************)
(* Claims about the geometry utilities.                                    *)
(***************************************************************************)
GetNextPointReturned ==
    callPc = "done" /\ call.entry \in {"getNextPoint", "getNextPoint (earlier version)"}

\* C15 (as claimed): getNextPoint yields a point exactly when the angle lies
\* strictly inside (-360 degrees, 360 degrees), that is -2*pi < angle < 2*pi
\* in radians; for every other angle, exactly +/- 2*pi included, it yields no
\* point.
C15_AsClaimed_PointIffInsideOpenInterval ==
    GetNextPointReturned =>
        ((callResult # Undefined) <=>
            (call.angle * RADIANS_60_DEGREES < RADIANS_360_DEGREES
             /\ call.angle * RADIANS_60_DEGREES > (-1) * RADIANS_360_DEGREES))

\* C15 (what the code does): getNextPoint of util.js yields a point for every
\* angle of less than 360 radians in absolute value, which all the angles
\* called with are; the earlier versions yield a point exactly for the closed
\* interval -2*pi <= angle <= 2*pi.
C15_PointForAnglesAccepted ==
    /\ (callPc = "done" /\ call.entry = "getNextPoint") => callResult # Undefined
    /\ (callPc = "done" /\ call.entry = "getNextPoint (earlier version)") =>
          ((callResult # Undefined) <=>
              (call.angle <= RADIANS_360_DEGREES /\ call.angle >= (-1) * RADIANS_360_DEGREES))

\* getNextPoint yielded no point to getEquilateralTrianglePathList, which
\* calls it with the angles 0, orientation * 120 and orientation * 240 degrees
NoPointForTriangle(orientation) ==
    \E i \in 0..2 : ~angleAccepted(i * orDefault1(orientation) * 2)

\* C16 (as claimed): when getNextPoint yields no point, its callers
\* arrowheadCurve and getEquilateralTrianglePathList go on without failing
\* and without using the missing point: the call is not aborted by an
\* exception and no entry of the path is built from the missing point.
C16_AsClaimed_MissingPointNotUsed ==
    /\ (EquilateralReturned /\ NoPointForTriangle(call.orientation)) =>
          (/\ ~Thrown(callResult)
           /\ \A i \in 2..Len(callResult) : callResult[i][1] = "L")
    /\ ArrowRoutineReturned =>
          (/\ ~Thrown(arrowResult)
           /\ \A i \in 2..Len(arrowResult) : arrowResult[i][1] = "L")

\* C16 (what the code does): the callers pass every point on to addLine,
\* which reads its X: when getNextPoint yielded no point the call is aborted
\* by the TypeError, with the LineTo entries built before it left in pathList.
C16_MissingPointThrows ==
    /\ EquilateralReturned =>
          (Thrown(callResult) <=> NoPointForTriangle(call.orientation))
    /\ (ArrowRoutineReturned /\ call.entry = "none" /\ arrowCall.level = 0) =>
          (Thrown(arrowResult) <=> ~angleAccepted(arrowCall.orientation * arrowCall.angle))

(***************************************************************************)
(* arrowheadCurve call by call: the frames of its recursion on the call    *)
(* stack of the engine, which is bounded.                                  *)
(***************************************************************************)
\* the number of frames the call stack holds: a deeper call throws
\* RangeError (Maximum call stack size exceeded)
MaxStack == MaxLevel + 3

\* the frame of the k-th recursive call (k = 1, 2, 3) made by the frame f
childFrame(f, k) ==
    [level |-> f.level - 1, fromPoint |-> f.fromPoint, sideLength |-> f.sideLength \div 2,
     angle |-> f.angle,
     angleChange |-> IF k = 2 THEN f.angleChange ELSE (-1) * f.angleChange,
     at |-> 0]

\* a call returns last to the frames of its callers: the caller that made its
\* first or second call takes last.point and last.angle, turns, and makes its
\* next call; the caller that made its third call returns last in turn
RECURSIVE arrowReturn(_, _)
arrowReturn(callers, last) ==
    IF callers = <<>>
    THEN <<>>
    ELSE LET f == Head(callers)
         IN  IF f.at = 3
             THEN arrowReturn(Tail(callers), last)
             ELSE LET g == [f EXCEPT !.fromPoint = last.point,
                                     !.angle = last.angle + f.angleChange * RADIANS_60_DEGREES,
                                     !.at = f.at + 1]
                  IN  <<childFrame(g, g.at), g>> \o Tail(callers)

\* arrowheadCurve is called on a pathList holding the MoveTo to fromPoint
ArrowheadCurveEnter ==
    /\ arrowPc = "called"
    /\ arrowCall.entry = "arrowheadCurve"
    /\ arrowStack' = <<[level |-> arrowCall.level, fromPoint |-> arrowCall.centerPoint,
                        sideLength |-> arrowCall.sideLength, angle |-> arrowCall.angle,
                        angleChange |-> arrowCall.angleChange, at |-> 0]>>
    /\ arrowResult' = << <<"M", arrowCall.centerPoint[1], arrowCall.centerPoint[2]>> >>
    /\ arrowPc' = "running"
    /\ UNCHANGED arrowCall
    /\ UNCHANGED <<revealVars, branchVars, triVars, callVars>>

\* the innermost call runs: it draws its segment and returns when its level
\* is 0, and makes its first recursive call otherwise
ArrowheadCurveStep ==
    /\ arrowPc = "running"
    /\ LET top == Head(arrowStack)
       IN  IF Len(arrowStack) > MaxStack
           THEN /\ arrowPc' = "RangeError"
                /\ arrowStack' = <<>>
                /\ UNCHANGED arrowResult
           ELSE IF top.level = 0
           THEN LET nextPoint == getNextPoint(top.fromPoint, top.sideLength,
                                              arrowCall.orientation * top.angle)
                    callers == IF nextPoint = Undefined
                               THEN <<>>
                               ELSE arrowReturn(Tail(arrowStack),
                                                [point |-> nextPoint, angle |-> top.angle])
                IN  /\ arrowResult' = addLine(arrowResult, nextPoint)
                    /\ arrowStack' = callers
                    /\ arrowPc' = IF callers = <<>> THEN "done" ELSE "running"
           ELSE /\ arrowStack' = <<childFrame(top, 1), [top EXCEPT !.at = 1]>>
                                     \o Tail(arrowStack)
                /\ UNCHANGED <<arrowResult, arrowPc>>
    /\ UNCHANGED arrowCall
    /\ UNCHANGED <<revealVars, branchVars, triVars, callVars>>

\* arrowheadCurve called with a level of either sign
InitArrowSteps ==
    /\ RevealInit
    /\ BranchIdle
    /\ TriIdle
    /\ CallIdle
    /\ \E fromPoint \in CenterPoints, level \in (-2)..MaxLevel, orientation \in {1, -1},
          angle \in {0, 0 - RADIANS_60_DEGREES} :
          arrowCall = [entry |-> "arrowheadCurve",
                       centerPoint |-> fromPoint, sideLength |-> SideLength,
                       level |-> level, orientation |-> orientation,
                       angle |-> angle, angleChange |-> 1]
    /\ arrowPc = "called"
    /\ arrowResult = <<>>
    /\ arrowStack = <<>>

\* one call of a generator routine, with a level of either sign
InitTerm == InitTri \/ InitTree \/ InitArrowSteps

NextTerm == NextTri \/ NextTree \/ ArrowheadCurveEnter \/ ArrowheadCurveStep

SpecTerm == InitTerm /\ [][NextTerm]_vars

(***************************************************************************)
(* Claims about the termination of the generators.                         *)
(***************************************************************************)
TriRoutineReturned == triPc = "done" /\ triCall.entry # "getSierpinskiTriangle"

\* C17 (as claimed): every generator routine (recursive triangle routine,
\* iterative triangle routine, arrowheadCurve, pythagorasTreeRoutine) returns
\* for every integer depth, never exhausting the call stack, and for a
\* negative depth returns what it returns for depth 0.
C17_AsClaimed_NegativeDepthAsZero ==
    /\ arrowPc # "RangeError"
    /\ (TriRoutineReturned /\ triCall.level < 0) =>
          triResult = recursiveSierpinskiTriangleRoutine(triCall.centerPoint,
                          triCall.sideLength, 0, triCall.orientation, triCall.levelChange)
    /\ (TreeRoutineReturned /\ call.level < 0) =>
          callResult = pythagorasTreeRoutine(0, <<>>, call.origin, call.orientation,
                                             call.sideLength, call.edgePathFunction)
    /\ (ArrowRoutineReturned /\ arrowCall.level < 0) =>
          arrowResult = arrowheadCurve(0,
              << <<"M", arrowCall.centerPoint[1], arrowCall.centerPoint[2]>> >>,
              arrowCall.centerPoint, arrowCall.sideLength, arrowCall.angle,
              arrowCall.angleChange, arrowCall.orientation).pathList

\* C17 (what the code does): the triangle routines and pythagorasTreeRoutine
\* return the empty path of depth 0 for a negative depth; arrowheadCurve
\* returns its path for a depth d >= 0 and, its base case being level == 0,
\* for a negative depth recurses until the call stack is exhausted.
C17_ArrowheadNegativeDepthOverflows ==
    /\ (TriRoutineReturned /\ triCall.level <= 0) => triResult = <<>>
    /\ (TreeRoutineReturned /\ call.level <= 0) => callResult = <<>>
    /\ arrowPc = "RangeError" => arrowCall.level < 0
    /\ ArrowRoutineReturned =>
          /\ arrowCall.level >= 0
          /\ arrowResult = arrowheadCurve(arrowCall.level,
                 << <<"M", arrowCall.centerPoint[1], arrowCall.centerPoint[2]>> >>,
                 arrowCall.centerPoint, arrowCall.sideLength, arrowCall.angle,
                 arrowCall.angleChange, arrowCall.orientation).pathList

(***************************************************************************)
(* The layout driver, drawFractalRow.  The canvas is Width pixels wide; a  *)
(* coordinate X is held as the integer 2 * fractalCount * X, which the     *)
(* divisions by 2 and by fractalCount leave exact.                         *)
(***************************************************************************)
\* distance (px) between fractals and side of canvas
buffer_size == 10

CanvasWidths == {300, 640}

CanvasHeight == 200

\* Math.round(maxOrder / fractalCount): the nearest integer, a half rounded up
orderIncrement(maxOrder, fractalCount) ==
    (2 * maxOrder + fractalCount) \div (2 * fractalCount)

\* the path a fractal function passed to drawFractalRow returns for its
\* arguments: a MoveTo and one LineTo per unit of order, which tell the
\* calls and the segments apart
fractalPath(f, centerPoint, fractalSize, order, orientation) ==
    [i \in 1..(order + 1) |->
        <<IF i = 1 THEN "M" ELSE "L", f, centerPoint, fractalSize, order, orientation, i>>]

\* the versions of draw: the one of util.js declares 'let currentPath'; the
\* earlier one assigns currentPath without a declaration, which creates a
\* property of the global object in sloppy mode and throws ReferenceError
\* in strict mode (the head of that version's file decides which)
DrawVersions ==
    {"let currentPath", "currentPath (sloppy mode)", "currentPath (strict mode)"}

\* draw, every call after the first animating the handle of the first call
drawn_sharedHandle(version, st, base, pathList) ==
    LET withBase == Append(st.paths, base)
        created == Len(withBase) + 1
        currentPath == IF st.draws = <<>> THEN created ELSE st.draws[1].handle
        reqs == drawNextPart(pathList, currentPath, 1)
    IN  [draws |-> Append(st.draws, [pathList |-> pathList, handle |-> created]),
         paths |-> Append(withBase, <<pathList[1]>>),
         animations |-> st.animations \cup Range(reqs),
         animateLog |-> [h \in 1..created |->
                            (IF h \in DOMAIN st.animateLog THEN st.animateLog[h] ELSE <<>>)
                            \o (IF h = currentPath THEN Targets(reqs) ELSE <<>>)],
         global |-> st.global,
         thrown |-> FALSE]

\* paper.path(base), a path no animate request is made for, then
\* draw(paper, pathList): the paper after both, its state st holding draws,
\* paths, animations and animateLog, the global object and whether the
\* call threw.  The path of pathList[0] is created before the assignment
\* to currentPath is attempted; drawNextPart receives the value of
\* currentPath as its own parameter.
drawn(version, st, base, pathList) ==
    LET withBase == Append(st.paths, base)
        currentPath == Len(withBase) + 1
        reqs == drawNextPart(pathList, currentPath, 1)
    IN  IF Len(pathList) <= 0
        THEN [draws |-> Append(st.draws, [pathList |-> pathList, handle |-> NoHandle]),
              paths |-> withBase,
              animations |-> st.animations,
              animateLog |-> Append(st.animateLog, <<>>),
              global |-> st.global,
              thrown |-> FALSE]
        ELSE IF version = "currentPath (strict mode)"
        THEN [draws |-> Append(st.draws, [pathList |-> pathList, handle |-> NoHandle]),
              paths |-> Append(withBase, <<pathList[1]>>),
              animations |-> st.animations,
              animateLog |-> Append(Append(st.animateLog, <<>>), <<>>),
              global |-> st.global,
              thrown |-> TRUE]
        ELSE [draws |-> Append(st.draws, [pathList |-> pathList, handle |-> currentPath]),
              paths |-> Append(withBase, <<pathList[1]>>),
              animations |-> st.animations \cup Range(reqs),
              animateLog |-> Append(Append(st.animateLog, <<>>), Targets(reqs)),
              global |-> IF version = "currentPath (sloppy mode)"
                         THEN [currentPath |-> currentPath]
                         ELSE st.global,
              thrown |-> FALSE]

\* the loop of drawFractalRow from its i-th iteration on: row holds the
\* arguments of the calls of fractalFunction made so far, fractals the
\* object returned, st the paper.  The loop has one Point object, the one
\* its variable centerPoint names: every call receives a reference to it
\* (centerPointRef) and reads the content it has at the call (centerPoint);
\* heap is the content of the object when the loop is left.  An exception
\* thrown by draw leaves the loop before centerPoint is moved.
RECURSIVE fractalRowLoop(_, _, _, _, _, _, _, _, _, _)
fractalRowLoop(version, i, fractalCount, increment, fractalSize, centerPoint, orientation, order, row, st) ==
    IF i > fractalCount \/ st.thrown
    THEN [row |-> row.row, fractals |-> row.fractals, paper |-> st,
          heap |-> [centerPoint |-> centerPoint]]
    ELSE LET base == fractalPath("baseFractalFunction", centerPoint, fractalSize, order,
                                 orientation)
             path == fractalPath("fractalFunction", centerPoint, fractalSize, order,
                                 orientation)
             fractals == [o \in DOMAIN row.fractals \cup {order} |->
                             IF o = order THEN path ELSE row.fractals[o]]
             instance == [centerPointRef |-> "centerPoint", centerPoint |-> centerPoint,
                          fractalSize |-> fractalSize,
                          order |-> order, orientation |-> orientation]
             after == drawn(version, st, base, path)
         IN  IF after.thrown
             THEN fractalRowLoop(version, i, fractalCount, increment, fractalSize,
                     centerPoint, orientation, order,
                     [row |-> Append(row.row, instance), fractals |-> fractals], after)
             ELSE fractalRowLoop(version, i + 1, fractalCount, increment, fractalSize,
                     <<centerPoint[1] + 2 * fractalSize, centerPoint[2]>>,
                     orientation * (-1), order + increment,
                     [row |-> Append(row.row, instance), fractals |-> fractals], after)

\* drawFractalRow(paper, fractalCount, maxOrder, fractalFunction,
\* baseFractalFunction): the instances drawn, the object returned and the
\* paper.  fractalSize is held as fractalCount * fractalSize, the center
\* as <<2 * fractalCount * X, 2 * Y>>.
drawFractalRow(version, canvasWidth, canvasHeight, fractalCount, maxOrder, st) ==
    LET fractalSize == canvasWidth - 2 * buffer_size
        centerPoint == <<2 * fractalCount * buffer_size + fractalSize, canvasHeight>>
    IN  fractalRowLoop(version, 1, fractalCount, orderIncrement(maxOrder, fractalCount),
                       fractalSize, centerPoint, 1, 1, [row |-> <<>>, fractals |-> <<>>], st)

\* drawFractalRow is called and returns, or is left by the exception of draw
DrawFractalRow ==
    /\ callPc = "called"
    /\ call.entry = "drawFractalRow"
    /\ LET after == drawFractalRow(call.draw, call.canvasWidth, call.canvasHeight,
                                   call.fractalCount, call.maxOrder,
                                   [draws |-> draws, paths |-> paths,
                                    animations |-> animations, animateLog |-> animateLog,
                                    global |-> [currentPath |-> NoHandle],
                                    thrown |-> FALSE])
       IN  /\ callResult' = [row |-> after.row, fractals |-> after.fractals,
                             heap |-> after.heap, global |-> after.paper.global,
                             thrown |-> after.paper.thrown]
           /\ draws' = after.paper.draws
           /\ paths' = after.paper.paths
           /\ animations' = after.paper.animations
           /\ animateLog' = after.paper.animateLog
    /\ callPc' = "done"
    /\ UNCHANGED call
    /\ UNCHANGED <<branchVars, triVars, arrowVars>>

InitRow ==
    /\ RevealInit
    /\ BranchIdle
    /\ TriIdle
    /\ ArrowIdle
    /\ \E canvasWidth \in CanvasWidths, fractalCount \in 1..MaxCount, maxOrder \in 1..MaxOrder :
          call = [entry |-> "drawFractalRow", canvasWidth |-> canvasWidth,
                  canvasHeight |-> CanvasHeight, fractalCount |-> fractalCount,
                  maxOrder |-> maxOrder, draw |-> "let currentPath"]
    /\ callPc = "called"
    /\ callResult = <<>>

NextRow == DrawFractalRow \/ AnimateDone

SpecRow == InitRow /\ [][NextRow]_vars

(***************************************************************************)
(* Claims about the layout driver.                                         *)
(***************************************************************************)
RowReturned == callPc = "done" /\ call.entry = "drawFractalRow"

\* C18 (as claimed): for every N >= 1 and maxDepth >= 1, drawFractalRow
\* creates N fractals whose center X strictly increases from one to the
\* next, whose orientation alternates +1, -1, +1, ... and whose depth
\* strictly increases from one to the next.
C18_AsClaimed_DepthStrictlyIncreases ==
    RowReturned =>
        LET row == callResult.row
        IN  /\ Len(row) = call.fractalCount
            /\ \A i \in 1..Len(row) : row[i].orientation = IF i % 2 = 1 THEN 1 ELSE -1
            /\ \A i \in 1..(Len(row) - 1) :
                  /\ row[i].centerPoint[1] < row[i + 1].centerPoint[1]
                  /\ row[i].order < row[i + 1].order

\* C18 (what the code does): the N fractals are placed left to right with
\* alternating orientation, the i-th of depth
\* 1 + (i - 1) * Math.round(maxDepth / N), which increases exactly when
\* 2 * maxDepth >= N and is 1 for every fractal otherwise.
C18_DepthByRoundedIncrement ==
    RowReturned =>
        LET row == callResult.row
        IN  /\ Len(row) = call.fractalCount
            /\ \A i \in 1..Len(row) :
                  /\ row[i].orientation = (IF i % 2 = 1 THEN 1 ELSE -1)
                  /\ row[i].order = 1 + (i - 1) * orderIncrement(call.maxOrder, call.fractalCount)
            /\ \A i \in 1..(Len(row) - 1) :
                  /\ row[i].centerPoint[1] < row[i + 1].centerPoint[1]
                  /\ (row[i].order < row[i + 1].order) <=> (2 * call.maxOrder >= call.fractalCount)
                  /\ (row[i].order = row[i + 1].order) <=> (2 * call.maxOrder < call.fractalCount)

\* C20 (as claimed): no operation modifies a Point in place after it has
\* been created or passed to another operation: the Point each call of
\* fractalFunction and baseFractalFunction received still has, when
\* drawFractalRow has returned, the content it had at the call.
C20_AsClaimed_PointsNeverModified ==
    RowReturned =>
        \A i \in 1..Len(callResult.row) :
            callResult.heap[callResult.row[i].centerPointRef] = callResult.row[i].centerPoint

\* C20 (what the code does): every call of the row received the same Point
\* object, and centerPoint.X += fractalSize moved it after each call: when
\* drawFractalRow has returned, the object lies fractalCount - i + 1 steps to
\* the right of where the i-th call saw it.
C20_CenterPointSharedAndMoved ==
    RowReturned =>
        \A i \in 1..Len(callResult.row) :
            LET instance == callResult.row[i]
                after == callResult.heap[instance.centerPointRef]
            IN  /\ instance.centerPointRef = "centerPoint"
                /\ after[1] = instance.centerPoint[1]
                                + (call.fractalCount - i + 1) * 2 * instance.fractalSize
                /\ after[2] = instance.centerPoint[2]
                /\ after # instance.centerPoint

(***************************************************************************)
(* Claims about getEquilateralTrianglePathList.                            *)
(***************************************************************************)
\* the heading, in units of 60 degrees, of the segment of length sideLength
\* that leads from one path entry to the next; -1 when it has none of the
\* six headings or another length
HeadingOf(from, to, sideLength) ==
    LET headings == {k \in 0..5 :
                        /\ to[2] = from[2] + (sideLength * Cos6x2(k)) \div 2
                        /\ to[3] = YPlus(from[3], sideLength * Sin6(k))}
    IN  IF headings = {} THEN -1 ELSE CHOOSE k \in headings : TRUE

\* C19: getEquilateralTrianglePathList(start, side, orientation), for an
\* orientation of +1 or -1, returns one MoveTo(start) followed by exactly
\* three LineTo whose headings are 0, orientation * 120 degrees and
\* orientation * 240 degrees, and the third LineTo ends at the start point.
C19_ClosedTriangle ==
    (EquilateralReturned /\ call.orientation \in {1, -1}) =>
        LET pathList == callResult
            o == call.orientation
        IN  /\ Len(pathList) = 4
            /\ pathList[1] = <<"M", call.startPoint[1], call.startPoint[2]>>
            /\ \A i \in 2..4 : pathList[i][1] = "L"
            /\ HeadingOf(pathList[1], pathList[2], call.sideLength) = 0
            /\ HeadingOf(pathList[2], pathList[3], call.sideLength) = (o * 2) % 6
            /\ HeadingOf(pathList[3], pathList[4], call.sideLength) = (o * 4) % 6
            /\ pathList[4] = <<"L", call.startPoint[1], call.startPoint[2]>>

\* a triangle of orientation -1 has been returned, closed at its start point
C19_Witness ==
    /\ EquilateralReturned
    /\ call.orientation = -1
    /\ Len(callResult) = 4
    /\ HeadingOf(callResult[2], callResult[3], call.sideLength) = 4
    /\ callResult[4] = <<"L", call.startPoint[1], call.startPoint[2]>>

(***************************************************************************)
(* Claims about the order in which the triangle routines emit.             *)
(***************************************************************************)
\* the number of triangles of a subtree of depth d
SubtreeSize(d) == (Pow(3, Max(d, 0)) - 1) \div 2

\* the place in the tree of the j-th triangle (from 0) of a pre-order walk of
\* a subtree of depth d: the sequence of children ("l", "r", "v") leading to
\* it from the root
RECURSIVE PreOrderAddress(_, _)
PreOrderAddress(j, d) ==
    IF j = 0
    THEN <<>>
    ELSE LET sub == SubtreeSize(d - 1)
             child == <<"l", "r", "v">>[((j - 1) \div sub) + 1]
         IN  <<child>> \o PreOrderAddress((j - 1) % sub, d - 1)

\* the center of the triangle at an address below the triangle of center
\* centerPoint and side sideLength
RECURSIVE CenterAt(_, _, _, _)
CenterAt(address, centerPoint, sideLength, orientation) ==
    IF address = <<>>
    THEN centerPoint
    ELSE LET child == CASE Head(address) = "l" ->
                               leftCenterPoint(centerPoint, sideLength, orientation)
                        [] Head(address) = "r" ->
                               rightCenterPoint(centerPoint, sideLength, orientation)
                        [] Head(address) = "v" ->
                               verticalCenterPoint(centerPoint, sideLength, orientation)
         IN  CenterAt(Tail(address), child, sideLength \div 2, orientation)

\* the four entries of the triangle at an address
TriangleAt(address, centerPoint, sideLength, orientation) ==
    LET side == sideLength \div Pow(2, Len(address))
    IN  getEquilateralTrianglePathList(
            triStartPoint(CenterAt(address, centerPoint, sideLength, orientation),
                          side, orientation),
            side, orientation)

\* the four entries a path holds for its j-th triangle (from 0)
EntriesOf(path, j) == SubSeq(path, 4 * j + 1, 4 * j + 4)

RecursiveReturned ==
    /\ triPc = "done"
    /\ triCall.entry = "recursiveSierpinskiTriangleRoutine"

\* C21: recursiveSierpinskiTriangleRoutine emits in pre-order: the 4 entries
\* of the current triangle first, then the whole path of the left subtree,
\* then of the right subtree, then of the vertical subtree, each child at
\* half the side length, with the same orientation and the depth reduced by
\* one; it returns the empty sequence when the depth is <= 0.
C21_PreOrder ==
    RecursiveReturned =>
        /\ triCall.level <= 0 => triResult = <<>>
        /\ Len(triResult) = 4 * SubtreeSize(triCall.level)
        /\ \A j \in 0..(SubtreeSize(triCall.level) - 1) :
              EntriesOf(triResult, j) =
                  TriangleAt(PreOrderAddress(j, triCall.level), triCall.centerPoint,
                             triCall.sideLength, triCall.orientation)

\* C21 witness: the routine returned the path of depth 3, whose sixth
\* triangle is the right child of the root, after the whole left subtree
C21_Witness ==
    /\ RecursiveReturned
    /\ triCall.level = 3
    /\ Len(triResult) = 52
    /\ PreOrderAddress(5, 3) = <<"r">>
    /\ EntriesOf(triResult, 5) =
           TriangleAt(<<"r">>, triCall.centerPoint, triCall.sideLength, triCall.orientation)

\* the k-th address (from 0) of the generation reached by n steps from the
\* root, children counted left, right, vertical: the n digits of k to base 3
RECURSIVE AddressInGeneration(_, _)
AddressInGeneration(k, n) ==
    IF n = 0
    THEN <<>>
    ELSE Append(AddressInGeneration(k \div 3, n - 1), <<"l", "r", "v">>[(k % 3) + 1])

\* the generation (root = 1) of the j-th triangle (from 0) of a walk
\* generation by generation
RECURSIVE GenerationOf(_, _)
GenerationOf(j, g) == IF j < SubtreeSize(g) THEN g ELSE GenerationOf(j, g + 1)

\* the place in the tree of the j-th triangle (from 0) of that walk
LevelOrderAddress(j) ==
    LET g == GenerationOf(j, 1)
    IN  AddressInGeneration(j - SubtreeSize(g - 1), g - 1)

\* the iterative routine is in its loop or has left it
IterativeRunning ==
    /\ triPc \in {"loop", "done"}
    /\ triCall.innerTrianglesFunction = "iterativeSierpinskiTriangleRoutine"

\* C22: iterativeSierpinskiTriangleRoutine, for a depth d >= 0, processes
\* its queue first in, first out and stops exactly when the queue length
\* reaches 3^d: triangles are emitted generation by generation, only the
\* complete generations 1..d are emitted, and on exit the queue holds
\* exactly the 3^d triangles of generation d + 1, none of them emitted.
C22_FifoByGeneration ==
    (IterativeRunning /\ triArgs.level >= 0) =>
        LET emitted == Len(triPathList) \div 4
            d == triArgs.level
        IN  /\ Len(triPathList) = 4 * emitted
            /\ Len(triangleQueue) = 2 * emitted + 1
            /\ Len(triangleQueue) <= Pow(3, d)
            /\ \A j \in 0..(emitted - 1) :
                  EntriesOf(triPathList, j) =
                      TriangleAt(LevelOrderAddress(j), triArgs.centerPoint,
                                 triArgs.sideLength, triArgs.orientation)
            /\ \A k \in 1..Len(triangleQueue) :
                  LET address == LevelOrderAddress(emitted + k - 1)
                  IN  triangleQueue[k] =
                          [centerPoint |-> CenterAt(address, triArgs.centerPoint,
                                                    triArgs.sideLength, triArgs.orientation),
                           sideLength |-> triArgs.sideLength \div Pow(2, Len(address))]
            /\ triPc = "done" =>
                  /\ Len(triangleQueue) = Pow(3, d)
                  /\ emitted = SubtreeSize(d)
                  /\ \A j \in 0..(emitted - 1) : GenerationOf(j, 1) <= d
                  /\ \A k \in 1..Len(triangleQueue) :
                        /\ GenerationOf(emitted + k - 1, 1) = d + 1
                        /\ triangleQueue[k].sideLength = triArgs.sideLength \div Pow(2, d)

\* C22 witness: the routine left its loop at depth 2 with the 4 triangles of
\* the generations 1 and 2 emitted and the 9 of generation 3 in the queue
C22_Witness ==
    /\ IterativeReturned
    /\ triArgs.level = 2
    /\ Len(triPathList) = 16
    /\ Len(triangleQueue) = 9
    /\ triangleQueue[1].sideLength = triArgs.sideLength \div 4
    /\ EntriesOf(triPathList, 3) =
           TriangleAt(<<"v">>, triArgs.centerPoint, triArgs.sideLength, triArgs.orientation)

(***************************************************************************)
(* Claims about the squares of the Pythagoras tree.                        *)
(***************************************************************************)
\* the place in the tree of the j-th square (from 0) of a pre-order walk of a
\* tree of depth d: the sequence of children ("l", "r") leading to it
RECURSIVE TreePreOrderAddress(_, _)
TreePreOrderAddress(j, d) ==
    IF j = 0
    THEN <<>>
    ELSE LET sub == Pow(2, d - 1) - 1
         IN  <<(<<"l", "r">>)[((j - 1) \div sub) + 1]>>
                 \o TreePreOrderAddress((j - 1) % sub, d - 1)

\* the square at an address below the square of the given center,
\* orientation and side
RECURSIVE SquareAt(_, _, _, _)
SquareAt(address, centerPoint, orientation, sideLength) ==
    IF address = <<>>
    THEN [centerPoint |-> centerPoint, orientation |-> orientation, sideLength |-> sideLength]
    ELSE LET childOrientation == IF Head(address) = "l"
                                 THEN orientation - RADIANS_45_DEGREES
                                 ELSE orientation + RADIANS_45_DEGREES
         IN  SquareAt(Tail(address),
                      childCenterPoint(centerPoint, orientation, childOrientation, sideLength),
                      childOrientation, ZDiv(ZMul(<<0, 1>>, sideLength), 2))

\* the corner of a square that lies, before the square is turned to its
\* orientation, half a side to the side sx (-1 left, 1 right) and half a side
\* to the side sy (1 bottom, -1 top) of its center
Corner(sq, sx, sy) ==
    LET half == ZDiv(sq.sideLength, 2)
    IN  rotatePoint(<<ZAdd(sq.centerPoint[1], ZTimes(sx, half)),
                      ZAdd(sq.centerPoint[2], ZTimes(sy, half))>>,
                    sq.orientation, sq.centerPoint)

bottomLeft(sq) == Corner(sq, -1, 1)

bottomRight(sq) == Corner(sq, 1, 1)

topLeft(sq) == Corner(sq, -1, -1)

topRight(sq) == Corner(sq, 1, -1)

\* the j-th group (from 0) of six entries of a path
GroupOf(path, j) == SubSeq(path, jump * j + 1, jump * j + jump)

\* the square the j-th group of the returned path was emitted for
SquareOfGroup(j) ==
    SquareAt(TreePreOrderAddress(j, call.level), call.origin, call.orientation,
             call.sideLength)

\* C23: pythagorasTreeSquare emits, in order, MoveTo(center),
\* MoveTo(bottom-left), then the four edges the edge function produces for
\* the corner pairs (bottom-left, bottom-right), (bottom-right, top-right),
\* (top-right, top-left) and (top-right, bottom-left): the closing edge is
\* requested from top-right, not from top-left.
C23_SquareEntries ==
    TreeRoutineReturned =>
        \A j \in 0..(Len(callResult) \div jump - 1) :
            LET sq == SquareOfGroup(j)
                c == sq.centerPoint
                f == call.edgePathFunction
            IN  GroupOf(callResult, j) =
                    << <<"M", c[1], c[2]>>,
                       <<"M", bottomLeft(sq)[1], bottomLeft(sq)[2]>>,
                       edgePath(f, bottomLeft(sq), bottomRight(sq), c),
                       edgePath(f, bottomRight(sq), topRight(sq), c),
                       edgePath(f, topRight(sq), topLeft(sq), c),
                       edgePath(f, topRight(sq), bottomLeft(sq), c) >>

\* C23 witness: a tree of curved edges, which show their from-point, has been
\* returned; the closing edge of its second square starts at the top right
\* corner, which is not the top left one
C23_Witness ==
    /\ TreeRoutineReturned
    /\ call.edgePathFunction = "getCurvedPath"
    /\ call.level = 2
    /\ Len(callResult) = 3 * jump
    /\ LET sq == SquareOfGroup(1)
       IN  /\ callResult[2 * jump] = <<"S", bottomLeft(sq)[1], bottomLeft(sq)[2],
                                       topRight(sq)[1], topRight(sq)[2]>>
           /\ topRight(sq) # topLeft(sq)

\* the point a MoveTo or LineTo entry names
TargetOf(entry) == <<entry[2], entry[3]>>

\* the tree was generated with the default straight-line edge function
StraightEdges == call.edgePathFunction \in {"getStraightPath", "undefined"}

\* C29: with the default straight-line edge function, which ignores its
\* from-point, each group emitted by pythagorasTreeSquare traces the closed
\* square bottom-left, bottom-right, top-right, top-left, bottom-left: the
\* four LineTo targets are the four distinct corners in that order and the
\* last LineTo returns to the point of the second MoveTo.
C29_StraightSquareClosed ==
    ((TreeRoutineReturned \/ TreeWrapperReturned) /\ StraightEdges) =>
        \A j \in 0..(Len(callResult) \div jump - 1) :
            LET group == GroupOf(callResult, j)
            IN  /\ \A k \in 3..jump : group[k][1] = "L" /\ Len(group[k]) = 3
                /\ Cardinality({TargetOf(group[k]) : k \in 3..jump}) = 4
                /\ TargetOf(group[jump]) = TargetOf(group[2])
                /\ TreeRoutineReturned =>
                      LET sq == SquareOfGroup(j)
                      IN  /\ TargetOf(group[2]) = bottomLeft(sq)
                          /\ TargetOf(group[3]) = bottomRight(sq)
                          /\ TargetOf(group[4]) = topRight(sq)
                          /\ TargetOf(group[5]) = topLeft(sq)
                          /\ TargetOf(group[6]) = bottomLeft(sq)

\* C29 witness: a tree of three straight-edged squares has been returned,
\* the third one closed at the point of its second MoveTo
C29_Witness ==
    /\ TreeRoutineReturned
    /\ call.edgePathFunction = "getStraightPath"
    /\ call.level = 2
    /\ Len(callResult) = 3 * jump
    /\ callResult[3 * jump][1] = "L"
    /\ TargetOf(callResult[3 * jump]) = TargetOf(callResult[2 * jump + 2])
    /\ TargetOf(callResult[3 * jump]) = bottomLeft(SquareOfGroup(2))

(***************************************************************************)
(* Claims relating the branched renderer to the tree generator.            *)
(***************************************************************************)
\* the index, among the squares of a pre-order walk of a tree of depth d, of
\* the square at an address
RECURSIVE TreeIndexOf(_, _)
TreeIndexOf(address, d) ==
    IF address = <<>>
    THEN 0
    ELSE 1 + (IF Head(address) = "r" THEN Pow(2, d - 1) - 1 ELSE 0)
           + TreeIndexOf(Tail(address), d - 1)

\* the place in the generated tree of the square whose group starts at index
\* start of treePath
AddressOfStart(start) == TreePreOrderAddress(start \div jump, treeCall.level)

\* the six entries the generator emitted for the square at an address
GeneratedGroup(address) ==
    LET sq == SquareAt(address, TreeOrigin, TreeOrientation, TreeSideLength)
    IN  pythagorasTreeSquare(sq.centerPoint, sq.orientation, sq.sideLength,
                             treeCall.edgePathFunction)

\* a group drawn is the group of one square of the generator's tree, its
\* range that square's subtree and its level that square's recursion depth
GroupIsSquare(a) ==
    LET address == AddressOfStart(a.start)
    IN  /\ a.start % jump = 0
        /\ TreeIndexOf(address, treeCall.level) = a.start \div jump
        /\ a.level = Len(address) + 1
        /\ a.target = GeneratedGroup(address)
        /\ a.end - a.start = jump * (Pow(2, treeCall.level - Len(address)) - 1)
        /\ callbacks[a.start] = <<Len(address) + 1>>

\* the groups started by the completion of the group a are the groups of the
\* left and right child squares of the square of a (none for a leaf)
ChildrenRevealed(a) ==
    LET address == AddressOfStart(a.start)
        started == {n.start : n \in branchAnimations' \ branchAnimations}
    IN  IF Len(address) + 1 < treeCall.level
        THEN started = {jump * TreeIndexOf(Append(address, "l"), treeCall.level),
                        jump * TreeIndexOf(Append(address, "r"), treeCall.level)}
        ELSE started = {}

\* C24: for the path emitted by pythagorasTreeRoutine at depth d, the index
\* split of drawBranchedPathList follows the generator's tree: the two groups
\* revealed after a group are exactly the groups of that square's left and
\* right child squares, and the level reported for each group equals the
\* recursion depth of the square that emitted it (root = 1).
C24_SplitFollowsTree ==
    /\ [](\A a \in branchAnimations \cup completed : GroupIsSquare(a))
    /\ [][\A a \in branchAnimations \ branchAnimations' : ChildrenRevealed(a)]_vars

\* C24 witness: in a tree of 3 levels the group of the right child of the
\* root (index 4 of the pre-order) has completed and the groups of its two
\* children, of level 3, are in flight
C24_Witness ==
    /\ treeCall.level = 3
    /\ \E a \in completed : a.start = 4 * jump /\ AddressOfStart(a.start) = <<"r">>
    /\ \E l, r \in branchAnimations :
          /\ AddressOfStart(l.start) = <<"r", "l">>
          /\ AddressOfStart(r.start) = <<"r", "r">>
          /\ l.level = 3 /\ r.level = 3
          /\ l.target = GeneratedGroup(<<"r", "l">>)

(***************************************************************************)
(* The branched renderer given any list of groups of segments.             *)
(***************************************************************************)
\* a list of n groups of jump segments (2 MoveTo and 4 LineTo each), every
\* segment told apart by its index
SegmentList(n) ==
    [i \in 1..(jump * n) |-> <<IF (i - 1) % jump < 2 THEN "M" ELSE "L", i, i>>]

InitGroups ==
    /\ RevealInit
    /\ TriIdle
    /\ ArrowIdle
    /\ CallIdle
    /\ treeCall = [level |-> 0, edgePathFunction |-> "getStraightPath"]
    /\ \E n \in 0..MaxGroups : treePath = SegmentList(n)
    /\ branchPc = "idle"
    /\ branchPaths = <<>>
    /\ branchAnimations = {}
    /\ callbacks = <<>>
    /\ completed = {}

NextGroups == DrawPythagorasTree \/ BranchAnimateDone

SpecGroups == InitGroups /\ [][NextGroups]_vars

\* the split index of the call drawBranchedPathList(.., start, end, ..) lies
\* on a group boundary inside the remaining range
SplitOnBoundary(a) ==
    LET split == nextIndex2(a.start, a.end)
    IN  /\ split % jump = 0
        /\ a.start + jump <= split
        /\ split <= a.end

\* C27: for any segment list whose length is a multiple of 6 (balanced tree
\* or not), drawBranchedPathList animates every group of 6 segments exactly
\* once and no segment twice: at every call the split index computed from
\* (start+end)/2 is a multiple of 6 with start+6 <= split <= end, so the
\* child ranges [start+6, split) and [split, end) partition the parent's
\* remaining range at group boundaries.
C27_EveryGroupOnce ==
    /\ \A a \in branchAnimations \cup completed :
          /\ a.start \in GroupStarts
          /\ a.end % jump = 0 /\ a.start + jump <= a.end /\ a.end <= Len(treePath)
          /\ a.target = SubSeq(treePath, a.start + 1, a.start + jump)
          /\ SplitOnBoundary(a)
    /\ \A a, b \in branchAnimations \cup completed : a.start = b.start => a = b
    /\ branchAnimations \cap completed = {}
    /\ \A s \in DOMAIN callbacks : Len(callbacks[s]) = 1
    /\ DOMAIN callbacks = {a.start : a \in branchAnimations \cup completed}
    /\ \A a \in completed :
          LET split == nextIndex2(a.start, a.end)
              inLeft == {b \in branchAnimations \cup completed :
                            a.start + jump <= b.start /\ b.start < split}
              inRight == {b \in branchAnimations \cup completed :
                             split <= b.start /\ b.start < a.end}
          IN  /\ \A b \in inLeft : b.end <= split
              /\ \A b \in inRight : b.end <= a.end
              /\ a.start + jump < split => \E b \in inLeft : b.start = a.start + jump
              /\ split < a.end => \E b \in inRight : b.start = split
    /\ BranchFinished =>
          /\ {a.start : a \in completed} = GroupStarts
          /\ Cardinality(completed) = Squares

\* C27 witness: the reveal of a list of 5 groups, which is not the path of a
\* balanced tree, has finished with its 5 groups animated
C27_Witness ==
    /\ BranchFinished
    /\ Squares = 5
    /\ Cardinality(completed) = 5
    /\ \E a \in completed : a.start = 4 * jump /\ a.end = 5 * jump

(***************************************************************************)
(* Claims about the heading of the arrowhead curve.                        *)
(***************************************************************************)
\* the heading getSierpinskiArrowheadCurve starts a curve of a level with
ParityHeading(level) == IF level % 2 = 0 THEN 0 ELSE 0 - RADIANS_60_DEGREES

\* the path ends at its start point translated by (sideLength, 0)
SpansBase(path, sideLength) ==
    /\ Len(path) >= 2
    /\ path[1][1] = "M"
    /\ path[Len(path)] = <<"L", path[1][2] + sideLength, path[1][3]>>

\* C26: for every depth d >= 0 and either orientation the last LineTo
\* endpoint of the arrowhead curve equals the start point translated by
\* (sideLength, 0): the parity-based initial heading (0 for even depth,
\* -60 degrees for odd depth) makes the curve span the base of the triangle
\* at every depth, in exact arithmetic.
C26_CurveSpansBase ==
    /\ ArrowWrapperReturned => SpansBase(arrowResult, arrowCall.sideLength)
    /\ (/\ ArrowRoutineReturned
        /\ arrowCall.angleChange = 1
        /\ arrowCall.angle = ParityHeading(arrowCall.level)) =>
            SpansBase(arrowResult, arrowCall.sideLength)

\* C26 witness: the curve of the even depth 2 or of the odd depth 3 has been
\* returned for the orientation -1, ending a side length to the right of its
\* start
C26_Witness ==
    /\ ArrowWrapperReturned
    /\ arrowCall.level \in {2, 3}
    /\ arrowCall.orientation = -1
    /\ Len(arrowResult) = Pow(3, arrowCall.level) + 1
    /\ SpansBase(arrowResult, arrowCall.sideLength)

(***************************************************************************)
(* The angles the arrowhead curve passes to getNextPoint.  The angle of a  *)
(* call of arrowheadCurve depends on level, angle and angleChange alone,   *)
(* so the run is followed with the points and the pathList left out, to    *)
(* the depths at which the pathList has 3^10 entries.                      *)
(***************************************************************************)
GetNextPointVersions == {"getNextPoint", "getNextPoint (earlier version)"}

\* the angle check of a version of getNextPoint
accepts(version, angle) ==
    IF version = "getNextPoint"
    THEN angleAccepted(angle)
    ELSE ~(angle > RADIANS_360_DEGREES \/ angle < (-1) * RADIANS_360_DEGREES)

\* arrowheadCurve(level, pathList, fromPoint, sideLength, angle, angleChange,
\* orientation) as to its angles: passed is the set of angles given to
\* getNextPoint so far, thrown tells that getNextPoint rejected the last one
\* (addLine then throws), angle is the angle returned
RECURSIVE arrowheadAngles(_, _, _, _, _, _)
arrowheadAngles(level, passed, angle, angleChange, orientation, version) ==
    IF level = 0
    THEN [passed |-> passed \cup {orientation * angle}, angle |-> angle,
          thrown |-> ~accepts(version, orientation * angle)]
    ELSE LET last1 == arrowheadAngles(level - 1, passed, angle, (-1) * angleChange,
                                      orientation, version)
         IN  IF last1.thrown
             THEN last1
             ELSE LET last2 == arrowheadAngles(level - 1, last1.passed,
                                   last1.angle + angleChange * RADIANS_60_DEGREES,
                                   angleChange, orientation, version)
                  IN  IF last2.thrown
                      THEN last2
                      ELSE arrowheadAngles(level - 1, last2.passed,
                               last2.angle + angleChange * RADIANS_60_DEGREES,
                               (-1) * angleChange, orientation, version)

\* getSierpinskiArrowheadCurve(centerPoint, sideLength, options) as to the
\* angles it has getNextPoint called with
arrowheadCurveAngles(optLevel, optOrientation, version) ==
    LET level == levelOrDefault(optLevel)
        orientation == coerceOrientation(optOrientation)
        angle == IF level % 2 = 0 THEN 0 ELSE 0 - RADIANS_60_DEGREES
        last == arrowheadAngles(level, {}, angle, 1, orientation, version)
    IN  [passed |-> last.passed, thrown |-> last.thrown]

\* getSierpinskiArrowheadCurve is called and returns, or is aborted by the
\* TypeError of addLine
GetArrowheadCurveAngles ==
    /\ callPc = "called"
    /\ call.entry = "getSierpinskiArrowheadCurve"
    /\ callResult' = arrowheadCurveAngles(call.level, call.orientation, call.getNextPoint)
    /\ callPc' = "done"
    /\ UNCHANGED call
    /\ UNCHANGED <<revealVars, branchVars, triVars, arrowVars>>

InitAngles ==
    /\ RevealInit
    /\ BranchIdle
    /\ TriIdle
    /\ ArrowIdle
    /\ \E level \in 0..MaxDepth, orientation \in Orientations,
          version \in GetNextPointVersions :
          call = [entry |-> "getSierpinskiArrowheadCurve", level |-> level,
                  orientation |-> orientation, getNextPoint |-> version]
    /\ callPc = "called"
    /\ callResult = <<>>

NextAngles == GetArrowheadCurveAngles

SpecAngles == InitAngles /\ [][NextAngles]_vars

AnglesReturned == callPc = "done" /\ call.entry = "getSierpinskiArrowheadCurve"

\* C25 (as claimed): for every depth d from 0 to 10 and either orientation,
\* every angle that arrowheadCurve passes to getNextPoint lies within the
\* range getNextPoint accepts, so arrowhead generation never takes the
\* invalid-angle path.
C25_AsClaimed_AnglesAccepted ==
    (AnglesReturned /\ call.level <= 10) =>
        /\ \A angle \in callResult.passed : accepts(call.getNextPoint, angle)
        /\ ~callResult.thrown

\* C25 (what the code does): the headings of a curve of depth d run over all
\* multiples of 60 degrees from -d * 60 to d * 60 degrees.  getNextPoint of
\* util.js, which compares with 360 radians, accepts them all; the earlier
\* getNextPoint, which compares with 2 * pi, accepts them up to depth 6 and
\* rejects the first heading beyond 360 degrees of every deeper curve.
C25_HeadingsGrowWithDepth ==
    AnglesReturned =>
        LET d == levelOrDefault(call.level)
        IN  /\ callResult.thrown <=>
                  (call.getNextPoint = "getNextPoint (earlier version)"
                      /\ d > RADIANS_360_DEGREES)
            /\ ~callResult.thrown => callResult.passed = (-d)..d
            /\ callResult.thrown =>
                  \E angle \in callResult.passed :
                      /\ angle \in {RADIANS_360_DEGREES + 1, -(RADIANS_360_DEGREES + 1)}
                      /\ callResult.passed \ {angle}
                            \subseteq (-RADIANS_360_DEGREES)..RADIANS_360_DEGREES

(***************************************************************************)
(* Claims about the depths the layout driver draws.                        *)
(***************************************************************************)
\* C28 (as claimed): every fractal drawn by drawFractalRow(paper, N,
\* maxDepth, ...) has a depth between 1 and maxDepth: the depth of the i-th
\* fractal, 1 + (i-1) * round(maxDepth / N), never exceeds the maximum depth
\* passed in.
C28_AsClaimed_DepthAtMostMax ==
    RowReturned =>
        \A i \in 1..Len(callResult.row) :
            /\ callResult.row[i].order >= 1
            /\ callResult.row[i].order <= call.maxOrder

\* C28 (what the code does): the depths start at 1 and the last one is
\* 1 + (N - 1) * round(maxDepth / N), which exceeds maxDepth whenever the
\* quotient is rounded up far enough, as for N = 2 and maxDepth = 1.
C28_LastDepth ==
    RowReturned =>
        LET row == callResult.row
            last == 1 + (call.fractalCount - 1)
                          * orderIncrement(call.maxOrder, call.fractalCount)
        IN  /\ \A i \in 1..Len(row) : row[i].order >= 1 /\ row[i].order <= last
            /\ row[Len(row)].order = last
            /\ (call.fractalCount = 2 /\ call.maxOrder = 1) => last = 2

(***************************************************************************)
(* Several reveals at once: drawFractalRow starts one draw per instance    *)
(* and returns; the completion callbacks of the reveals then run in any    *)
(* order.                                                                  *)
(***************************************************************************)
InitReveals ==
    /\ RevealInit
    /\ BranchIdle
    /\ TriIdle
    /\ ArrowIdle
    /\ \E canvasWidth \in CanvasWidths, fractalCount \in 1..MaxCount, maxOrder \in 1..MaxOrder,
          version \in DrawVersions :
          call = [entry |-> "drawFractalRow", canvasWidth |-> canvasWidth,
                  canvasHeight |-> CanvasHeight, fractalCount |-> fractalCount,
                  maxOrder |-> maxOrder, draw |-> version]
    /\ callPc = "called"
    /\ callResult = <<>>

SpecReveals == InitReveals /\ [][NextRow]_vars

\* s is the list of the first Len(s) segments of t
IsPrefix(s, t) == Len(s) <= Len(t) /\ s = SubSeq(t, 1, Len(s))

\* the reveals started: the draw calls that returned a handle
Reveals == {i \in DOMAIN draws : draws[i].handle # NoHandle}

\* the number of animate requests of handle h that have completed
Completed(h) == Len(animateLog[h]) - Cardinality({a \in animations : a.handle = h})

\* the handle paper.path created in the i-th draw call of drawFractalRow,
\* which creates the path of the base fractal before each call
CreatedBy(i) == 2 * i

====
